---- MODULE Spec2Model ----
(***************************************************************************)
(* SHA-256 based binary merklization on FPGA (itzmeanjan/sha256-fpga).     *)
(*                                                                         *)
(* The first part models the 2-to-1 SHA-256 hash of include/sha256.hpp on  *)
(* 32-bit words, the second part the kernels of merklize() of              *)
(* include/merklize.hpp, which talk over blocking SYCL pipes.              *)
(*                                                                         *)
(* A uint32_t is held as the integer that has the same 32-bit pattern in   *)
(* two's complement (TLC integers are 32 bits wide and signed); every      *)
(* operation works on the two 16-bit halves Hi(w), Lo(w) and reduces       *)
(* modulo 2^16, so that arithmetic is exactly arithmetic modulo 2^32.      *)
(* C arrays are sequences; At(a, i) is element i of the source's array.    *)
(***************************************************************************)
EXTENDS Integers, Sequences, FiniteSets, TLC

----------------------------------------------------------------------------
(* uint32_t *)

\* the one element of a singleton set.  Only({e(a) : a \in {x}}) is e(x)
\* with x evaluated once, however often e uses it
Only(S) == CHOOSE r \in S : TRUE

\* the word with high half hi and low half lo (both in 0..65535)
W(hi, lo) == (IF hi >= 32768 THEN hi - 65536 ELSE hi) * 65536 + lo

Hi(w) == (w \div 65536) % 65536

Lo(w) == w % 65536

\* uint32_t addition: wraps modulo 2^32
Add(x, y) ==
  Only({LET lo == Lo(a) + Lo(b)
            hi == Hi(a) + Hi(b) + (lo \div 65536)
        IN  W(hi % 65536, lo % 65536) : a \in {x}, b \in {y}})

RECURSIVE XorBits(_, _, _)
XorBits(a, b, n) ==
  IF n = 0 THEN 0
  ELSE ((a + b) % 2) + 2 * XorBits(a \div 2, b \div 2, n - 1)

\* exclusive or of two bytes, tabulated once
XorTab == [i \in 1..65536 |-> XorBits((i - 1) \div 256, (i - 1) % 256, 8)] \o <<>>

Xor16(x, y) ==
  Only({XorTab[(a \div 256) * 256 + (b \div 256) + 1] * 256
          + XorTab[(a % 256) * 256 + (b % 256) + 1] : a \in {x}, b \in {y}})

\* a & b on 16 bits: a + b = (a ^ b) + 2 * (a & b)
And16(a, b) == (a + b - Xor16(a, b)) \div 2

\* x ^ y
Xor(x, y) ==
  Only({W(Xor16(Hi(a), Hi(b)), Xor16(Lo(a), Lo(b))) : a \in {x}, b \in {y}})

\* x & y
And(x, y) ==
  Only({W(And16(Hi(a), Hi(b)), And16(Lo(a), Lo(b))) : a \in {x}, b \in {y}})

\* a | b on 16 bits: (a | b) + (a & b) = a + b
Or16(a, b) == a + b - And16(a, b)

\* x | y
Or(x, y) ==
  Only({W(Or16(Hi(a), Hi(b)), Or16(Lo(a), Lo(b))) : a \in {x}, b \in {y}})

\* ~x
Not(x) == Only({W(65535 - Hi(a), 65535 - Lo(a)) : a \in {x}})

Pow2(n) == <<1, 2, 4, 8, 16, 32, 64, 128, 256, 512, 1024, 2048, 4096, 8192,
            16384, 32768, 65536>>[n + 1]

\* x >> n for 0 <= n < 32 (zero fill)
Shr(x, n) ==
  Only({IF n >= 16
        THEN W(0, Hi(a) \div Pow2(n - 16))
        ELSE W(Hi(a) \div Pow2(n),
               (Lo(a) \div Pow2(n)) + (Hi(a) % Pow2(n)) * Pow2(16 - n)) :
        a \in {x}})

\* x << n for 0 < n <= 32 (bits shifted out are lost)
Shl(x, n) ==
  Only({IF n >= 32 THEN 0
        ELSE IF n >= 16
        THEN W((Lo(a) * Pow2(n - 16)) % 65536, 0)
        ELSE W(((Hi(a) * Pow2(n)) % 65536) + (Lo(a) \div Pow2(16 - n)),
               (Lo(a) * Pow2(n)) % 65536) :
        a \in {x}})

----------------------------------------------------------------------------
(* include/sha256.hpp *)

\* circular right shift by n < 32
rotr(n, x) == Only({Or(Shr(a, n), Shl(a, 32 - n)) : a \in {x}})

\* element i of a C array held as a sequence
At(a, i) == a[i + 1]

IV == <<
     W(27145, 58983), W(47975, 44677), W(15470, 62322), W(42319, 62778),
     W(20750, 21119), W(39685, 26764), W(8067, 55723), W(23520, 52505)
  >>

K == <<
     W(17034, 12184), W(28983, 17553), W(46528, 64463), W(59829, 56229),
     W(14678, 49755), W(23025, 4593), W(37439, 33444), W(43804, 24277),
     W(55303, 43672), W(4739, 23297), W(9265, 34238), W(21772, 32195),
     W(29374, 23924), W(32990, 45566), W(39900, 1703), W(49563, 61812),
     W(58523, 27073), W(61374, 18310), W(4033, 40390), W(9228, 41420),
     W(11753, 11375), W(19060, 33962), W(23728, 43484), W(30457, 35034),
     W(38974, 20818), W(43057, 50797), W(45059, 10184), W(48985, 32711),
     W(50912, 3059), W(54695, 37191), W(1738, 25425), W(5161, 10599),
     W(10167, 2693), W(11803, 8504), W(19756, 28156), W(21304, 3347),
     W(25866, 29524), W(30314, 2747), W(33218, 51502), W(37490, 11397),
     W(41663, 59553), W(43034, 26187), W(49739, 35696), W(51052, 20899),
     W(53650, 59417), W(54937, 1572), W(62478, 13701), W(4202, 41072),
     W(6564, 49430), W(7735, 27656), W(10056, 30540), W(13488, 48309),
     W(14620, 3251), W(20184, 43594), W(23452, 51791), W(26670, 28659),
     W(29839, 33518), W(30885, 25455), W(33992, 30740), W(36039, 520),
     W(37054, 65530), W(42064, 27883), W(48889, 41975), W(50801, 30962)
  >>

ch(x, y, z) == Xor(And(x, y), And(Not(x), z))

maj(x, y, z) == Xor(Xor(And(x, y), And(x, z)), And(y, z))

SIGMA_0(x) == Xor(Xor(rotr(2, x), rotr(13, x)), rotr(22, x))

SIGMA_1(x) == Xor(Xor(rotr(6, x), rotr(11, x)), rotr(25, x))

\* a σ_0 whose third term rotates where the function shifts
sigma_0_rotated(x) == Xor(Xor(rotr(7, x), rotr(18, x)), rotr(3, x))

sigma_0(x) == Xor(Xor(rotr(7, x), rotr(18, x)), Shr(x, 3))

sigma_1(x) == Xor(Xor(rotr(17, x), rotr(19, x)), Shr(x, 10))

\* variant: the iteration adds the word 6 back where the function adds
\* the word 7 back
schedule_step_six(out, i) ==
  LET tmp0 == Add(sigma_1(At(out, (i - 2) % 64)), At(out, (i - 6) % 64))
      tmp1 == Add(sigma_0(At(out, (i - 15) % 64)), At(out, (i - 16) % 64))
  IN  [out EXCEPT ![(i % 64) + 1] = Add(tmp0, tmp1)]

\* iteration i of the second loop of prepare_message_schedule
schedule_step(out, i) ==
  LET tmp0 == Add(sigma_1(At(out, (i - 2) % 64)), At(out, (i - 7) % 64))
      tmp1 == Add(sigma_0(At(out, (i - 15) % 64)), At(out, (i - 16) % 64))
  IN  [out EXCEPT ![(i % 64) + 1] = Add(tmp0, tmp1)]

\* iterations lo .. hi-1 of that loop, in order (the first half is
\* evaluated before the second half starts, which bounds the nesting)
RECURSIVE schedule_rounds(_, _, _)
schedule_rounds(out, lo, hi) ==
  IF hi = lo + 1 THEN schedule_step(out, lo)
  ELSE LET mid == (lo + hi) \div 2
       IN  Only({schedule_rounds(half, mid, hi) :
                 half \in {schedule_rounds(out, lo, mid)}})

\* in: 16 words of one message block; out: the 64-word array it overwrites
prepare_message_schedule(in, out) ==
  Only({schedule_rounds(first, 16, 64) :
        first \in {SubSeq(in, 1, 16) \o SubSeq(out, 17, 64)}})

\* iteration t of the 64 rounds on the working variables v = <<a, .., h>>
round(v, t, msg_schld) ==
  LET a == v[1]  b == v[2]  c == v[3]  d == v[4]
      e == v[5]  f == v[6]  g == v[7]  h == v[8]
  IN  Only({<<Add(tmp0, tmp1), a, b, c, Add(d, tmp0), e, f, g>> :
            tmp0 \in {Add(Add(Add(Add(h, SIGMA_1(e)), ch(e, f, g)), At(K, t)),
                          At(msg_schld, t))},
            tmp1 \in {Add(SIGMA_0(a), maj(a, b, c))}})

\* iterations lo .. hi-1 of the loop over t, in order
RECURSIVE rounds(_, _, _, _)
rounds(v, lo, hi, msg_schld) ==
  IF hi = lo + 1 THEN round(v, lo, msg_schld)
  ELSE LET mid == (lo + hi) \div 2
       IN  Only({rounds(half, mid, hi, msg_schld) :
                 half \in {rounds(v, lo, mid, msg_schld)}})

\* iteration i of the loop of hash over the two message blocks;
\* s holds the arrays hash_state and msg_schld
hash_block(s, in, i) ==
  Only({Only({[hash_state |-> [j \in 1..8 |-> Add(s0.hash_state[j], v[j])] \o <<>>,
               msg_schld |-> schld] :
              v \in {rounds(s0.hash_state, 0, 64, schld)}}) :
        s0 \in {s},
        schld \in {prepare_message_schedule(
                     SubSeq(in, i * 16 + 1, i * 16 + 16), s.msg_schld)}})

\* variant: the call goes on from the state the previous call left
hash_carried(hash_state, msg_schld, in) ==
  Only({Only({hash_block(s1, padded, 1) : s1 \in {hash_block(s0, padded, 0)}}) :
        s0 \in {[hash_state |-> hash_state, msg_schld |-> msg_schld]},
        padded \in {in}})

\* hash: the contents of hash_state and msg_schld when it returns
hash(hash_state, msg_schld, in) ==
  Only({Only({hash_block(s1, padded, 1) : s1 \in {hash_block(s0, padded, 0)}}) :
        s0 \in {[hash_state |-> [i \in DOMAIN hash_state |-> At(IV, i - 1)] \o <<>>,
                 msg_schld |-> msg_schld]},
        padded \in {in}})

\* a padding that records the message length in bytes, 64, not in bits
pad_input_message_bytes(in) ==
  SubSeq(in, 1, 16) \o <<Shl(128, 24)>> \o [i \in 1..14 |-> 0]
    \o <<Or(0, Shl(2, 5))>>

\* pad_input_message: the 32 words left in out
pad_input_message(in) ==
  SubSeq(in, 1, 16) \o <<Shl(128, 24)>> \o [i \in 1..14 |-> 0]
    \o <<Or(0, Shl(2, 8))>>

----------------------------------------------------------------------------
(* include/merklize.hpp: merklize() and its kernels *)

\* bound of the model: trees of up to 2^MaxLog leaves, and pipes of up to
\* MaxLog - 1 words (the deeper the tree, the shallower the pipes it is run
\* with)
MaxLog == 3

\* size_t shifts (sizes stay far below 2^31 here)
shl(x, n) == x * (2 ^ n)

shr(x, n) == x \div (2 ^ n)

RECURSIVE bin_log(_)
bin_log(n) == IF n > 1 THEN 1 + bin_log(shr(n, 1)) ELSE 0

\* leaf_cnt & (leaf_cnt - 1) == 0
is_pow2(n) == n = 0 \/ \E e \in 0..30 : n = 2 ^ e

\* the leaves the caller passes: leaf_cnt digests of 8 words (i_size bytes)
LeafWords(n) == [i \in 1..(8 * n) |-> W(i, 8 * n + i)] \o <<>>

\* what a read of a word that nobody wrote, or of a word outside the
\* allocation, may return
JunkWords == {0, W(65535, 65535)}

Zeros(n) == [i \in 1..n |-> 0] \o <<>>

VARIABLES
  host,           \* where the host thread is in merklize()
  leaf_cnt,       \* argument leaf_cnt
  i_size,         \* argument i_size: bytes of leaves
  o_size,         \* argument o_size: bytes of intermediates
  capacity,       \* capacity the build gives every pipe (min_capacity is 0)
  leaves,         \* device memory behind leaves, i_size / 4 words
  intermediates,  \* device memory behind intermediates, o_size / 4 words
  orch,           \* kernelMerklizationOrchestrator0 and 1
  root,           \* kernelMerklizationOrchestrator2
  worker,         \* kernelSHA256Hash0 .. 3
  ipipe,          \* ipipe0 .. 3: words in flight
  opipe,          \* opipe0 .. 3: words in flight
  log,            \* per kernel, its global memory accesses in program order
  test,           \* kernelSHA256Test: its position and its private arrays
  call,           \* a function of sha256.hpp called on its own: its arguments
                  \* and what it leaves in them
  alt,            \* merklize() of the second header (in include/utils.hpp):
                  \* its host thread, its three kernels, its four pipes and
                  \* the intermediates it is given
  late            \* calls of merklize() made so far on the queue, and the
                  \* kernelSHA256Hash0 .. 3 that a later call has submitted

vars == <<host, leaf_cnt, i_size, o_size, capacity, leaves, intermediates,
          orch, root, worker, ipipe, opipe, log, test, call, alt, late>>

Orchs == {0, 1}

Workers == {0, 1, 2, 3}

\* words in each allocation
LeavesLen == i_size \div 4

IntermediatesLen == o_size \div 4

----------------------------------------------------------------------------
(* global memory accesses *)

\* the word indices base .. base+n-1
Burst(base, n) == base..(base + n - 1)

\* all accesses logged so far, of every kernel
AllLog == log[0] \o log[1] \o log[2]

\* words of intermediates some kernel has stored to so far
Written ==
  UNION {Burst(AllLog[e].at, 8) \cap 0..(IntermediatesLen - 1) :
         e \in {x \in DOMAIN AllLog : AllLog[x].op = "wi"}}

\* a read of intermediates[idx] returns the word stored there, if one was
\* stored; junk stands for what it returns otherwise
load_intermediate(idx, junk) ==
  IF idx < IntermediatesLen /\ idx \in Written
  THEN At(intermediates, idx) ELSE junk

load_leaf(idx, junk) ==
  IF idx < LeavesLen THEN At(leaves, idx) ELSE junk

\* is every word of the 16 read at base there to be read: inside the
\* allocation and, for intermediates, stored by some kernel before
read_ok(buf, base) ==
  IF buf = "rl" THEN base + 16 <= LeavesLen
  ELSE \A idx \in Burst(base, 16) : idx < IntermediatesLen /\ idx \in Written

\* is every word of the 8 written at base inside the allocation
write_ok(base) == base + 8 <= IntermediatesLen

\* intermediates_ptr[base + j] = digest[j], j < 8 (words outside the
\* allocation are not part of the model's memory)
store_digest(mem, base, digest) ==
  [idx \in 1..Len(mem) |->
     IF idx - 1 \in Burst(base, 8) THEN At(digest, idx - 1 - base) ELSE mem[idx]] \o <<>>

----------------------------------------------------------------------------
(* kernelMerklizationOrchestrator0 (k = 0) and 1 (k = 1) *)

\* first loop: over pairs of leaves
\* variant: kernel 1 starts where kernel 0 starts
leaf_i_offset_zero(k) == 0

\* variant: kernel 1 starts at the end of the leaves, not at their middle
leaf_i_offset_end(k) == IF k = 0 THEN 0 ELSE shl(leaf_cnt, 3)

leaf_i_offset(k) == IF k = 0 THEN 0 ELSE shl(shr(leaf_cnt, 1), 3)

\* variant: kernel 1 takes over the output offset of kernel 0
leaf_o_offset_copied(k) == shl(shr(leaf_cnt, 1), 3)

leaf_o_offset(k) ==
  IF k = 0 THEN shl(shr(leaf_cnt, 1), 3)
  ELSE leaf_i_offset(1) + shr(leaf_i_offset(1), 1)

\* variant: one shift too many
leaf_itr_cnt_short == shr(leaf_cnt, 3)

leaf_itr_cnt == shr(leaf_cnt, 2)

\* second loop: rounds over levels of intermediate nodes
rounds_cnt == bin_log(shr(leaf_cnt, 2))

\* variant: kernel 1 reads the rounds' input where kernel 0 reads it
round_i_offset_shared(k, r) == shr(shl(leaf_cnt, 2), r)

round_i_offset(k, r) ==
  IF k = 0 THEN shr(shl(leaf_cnt, 2), r)
  ELSE shr(shl(leaf_cnt, 2) + shl(leaf_cnt, 1), r)

\* variant: kernel 1 stores a round where kernel 0 stores it
round_o_offset_first(k, r) == shr(round_i_offset(0, r), 1)

round_o_offset(k, r) == shr(round_i_offset(k, r), 1)

round_itr_cnt(r) == shr(leaf_cnt, r + 3)

\* o.stage = 0 is the loop over leaves, o.stage = r + 1 is round r
i_offset(k, o) ==
  IF o.stage = 0 THEN leaf_i_offset(k) ELSE round_i_offset(k, o.stage - 1)

o_offset(k, o) ==
  IF o.stage = 0 THEN leaf_o_offset(k) ELSE round_o_offset(k, o.stage - 1)

itr_cnt(o) == IF o.stage = 0 THEN leaf_itr_cnt ELSE round_itr_cnt(o.stage - 1)

i_offset_0(k, o) == i_offset(k, o) + shl(o.i, 4)

i_offset_1(k, o) == i_offset(k, o) + shl(o.i + 1, 4)

o_offset_0(k, o) == o_offset(k, o) + shl(o.i, 3)

\* variant: the second digest of an iteration goes where the first went
o_offset_1_same(k, o) == o_offset(k, o) + shl(o.i, 3)

o_offset_1(k, o) == o_offset(k, o) + shl(o.i + 1, 3)

\* variant: the first message of an iteration is sent to the second worker
pipe_0_second(k) == 2 * k + 1

\* the pipes of orchestrator k: ipipe0/opipe0 and ipipe1/opipe1 for kernel
\* 0, ipipe2/opipe2 and ipipe3/opipe3 for kernel 1
pipe_0(k) == 2 * k

\* variant: the second message of an iteration is sent to the first worker
pipe_1_first(k) == 2 * k

pipe_1(k) == 2 * k + 1

\* control reaches the head of the loop over i of stage s with counter i:
\* the next iteration, or the first one of the next round, or the end
RECURSIVE loop_head(_, _, _)
loop_head(o, s, i) ==
  LET cnt == IF s = 0 THEN leaf_itr_cnt ELSE round_itr_cnt(s - 1)
  IN  IF i < cnt THEN [o EXCEPT !.pc = "load0", !.stage = s, !.i = i, !.j = 0]
      ELSE IF s < rounds_cnt THEN loop_head(o, s + 1, 0)
      ELSE [o EXCEPT !.pc = "done", !.j = 0]

\* the kernel starts running
OrchStart(k) ==
  /\ orch[k].pc = "start"
  /\ orch' = [orch EXCEPT ![k] = loop_head(@, 0, 0)]
  /\ UNCHANGED <<late, alt, call, test, host, leaf_cnt, i_size, o_size, capacity, leaves,
                 intermediates, root, worker, ipipe, opipe, log>>

\* msg[j] = leaves_ptr[..] or intermediates_ptr[..], j < 16, and
\* pad_input_message(msg, padded)
OrchLoad(k) ==
  LET o == orch[k]
      base == IF o.pc = "load0" THEN i_offset_0(k, o) ELSE i_offset_1(k, o)
      buf == IF o.stage = 0 THEN "rl" ELSE "ri"
  IN  /\ o.pc \in {"load0", "load1"}
      /\ \E junk \in (IF read_ok(buf, base) THEN {0} ELSE JunkWords) :
           LET msg == [j \in 1..16 |->
                         IF buf = "rl" THEN load_leaf(base + j - 1, junk)
                         ELSE load_intermediate(base + j - 1, junk)] \o <<>>
           IN  orch' = [orch EXCEPT ![k] =
                 [o EXCEPT !.msg = msg, !.padded = pad_input_message(msg),
                           !.pc = IF o.pc = "load0" THEN "send0" ELSE "send1",
                           !.j = 0]]
      /\ log' = [log EXCEPT ![k] =
           Append(@, [op |-> buf, at |-> base, ok |-> read_ok(buf, base)])]
      /\ UNCHANGED <<late, alt, call, test, host, leaf_cnt, i_size, o_size, capacity, leaves,
                     intermediates, root, worker, ipipe, opipe>>

\* variant: the first digest is read from the second output pipe and the
\* second digest from the first
orch_pipe_crossed(k) ==
  IF orch[k].pc \in {"send0", "recv1"} THEN pipe_0(k) ELSE pipe_1(k)

\* the pipe orchestrator k is writing to or reading from
orch_pipe(k) ==
  IF orch[k].pc \in {"send0", "recv0"} THEN pipe_0(k) ELSE pipe_1(k)

\* ipipe::write(padded[j]) has completed
orch_sent(k, o) ==
  IF o.j < 31 THEN [o EXCEPT !.j = o.j + 1]
  ELSE IF o.pc = "send0" /\ itr_cnt(o) > 1 THEN [o EXCEPT !.pc = "load1", !.j = 0]
  ELSE [o EXCEPT !.pc = "recv0", !.j = 0]

\* digest[j] = opipe::read() has returned word
orch_received(k, o, word) ==
  LET d == [o.digest EXCEPT ![o.j + 1] = word]
  IN  IF o.j < 7 THEN [o EXCEPT !.digest = d, !.j = o.j + 1]
      ELSE [o EXCEPT !.digest = d, !.j = 0,
                     !.pc = IF o.pc = "recv0" THEN "store0" ELSE "store1"]

\* variant: the second digest of an iteration is not waited for
orch_stored_early(k, o) == loop_head(o, o.stage, o.i + 2)

\* where control goes after a digest is stored: on to the second digest of
\* the iteration, or to the next iteration
orch_stored(k, o) ==
  IF o.pc = "store0" /\ itr_cnt(o) > 1
  THEN [o EXCEPT !.pc = "recv1", !.j = 0]
  ELSE loop_head(o, o.stage, o.i + 2)

\* intermediates_ptr[o_offset + j] = digest[j], j < 8
OrchStore(k) ==
  LET o == orch[k]
      base == IF o.pc = "store0" THEN o_offset_0(k, o) ELSE o_offset_1(k, o)
  IN  /\ o.pc \in {"store0", "store1"}
      /\ intermediates' = store_digest(intermediates, base, o.digest)
      /\ log' = [log EXCEPT ![k] =
           Append(@, [op |-> "wi", at |-> base, ok |-> write_ok(base)])]
      /\ orch' = [orch EXCEPT ![k] = orch_stored(k, o)]
      /\ UNCHANGED <<late, alt, call, test, host, leaf_cnt, i_size, o_size, capacity, leaves,
                     root, worker, ipipe, opipe>>

----------------------------------------------------------------------------
(* ComputeSHA256(idx): kernelSHA256Hash0 .. 3 *)

\* variant: the worker starts hashing once the 16 message words are in
worker_received_half(w, word) ==
  LET p == [w.padded EXCEPT ![w.j + 1] = word]
  IN  IF w.j < 15 THEN [w EXCEPT !.padded = p, !.j = w.j + 1]
      ELSE [w EXCEPT !.padded = p, !.j = 0, !.pc = "hash"]

\* padded[i] = ipipe::read() has returned word
worker_received(w, word) ==
  LET p == [w.padded EXCEPT ![w.j + 1] = word]
  IN  IF w.j < 31 THEN [w EXCEPT !.padded = p, !.j = w.j + 1]
      ELSE [w EXCEPT !.padded = p, !.j = 0, !.pc = "hash"]

\* opipe::write(hash_state[i]) has completed; after the 8th the while (true)
\* loop starts over
worker_sent(w) ==
  IF w.j < 7 THEN [w EXCEPT !.j = w.j + 1]
  ELSE [w EXCEPT !.j = 0, !.pc = "read"]

\* the heap-ordered tree over leaves lv, nodes k, k-1, .., 1 filled into buf:
\* node k at words [8k, 8k+8) is the 2-to-1 hash of nodes 2k and 2k+1, or
\* of the leaves 2k-n and 2k-n+1
RECURSIVE MerkleNodes(_, _, _)
MerkleNodes(lv, buf, k) ==
  IF k = 0 THEN buf
  ELSE LET n == Len(lv) \div 8
           msg == IF 2 * k >= n
                  THEN SubSeq(lv, 16 * k - 8 * n + 1, 16 * k - 8 * n + 16)
                  ELSE SubSeq(buf, 16 * k + 1, 16 * k + 16)
           d == hash(IV, Zeros(64), pad_input_message(msg)).hash_state
       IN  Only({MerkleNodes(lv, nb, k - 1) :
                 nb \in {SubSeq(buf, 1, 8 * k) \o d
                           \o SubSeq(buf, 8 * k + 9, Len(buf))}})

MerkleTree(lv) == MerkleNodes(lv, Zeros(Len(lv)), (Len(lv) \div 8) - 1)

\* the trees of the inputs of the model, and the digest of every message
\* hashed in them, computed once
KnownTrees == [e \in 1..MaxLog |-> MerkleTree(LeafWords(2 ^ e))] \o <<>>

\* the messages read where nothing was stored, and their digests
JunkDigests ==
  {<<pad_input_message([i \in 1..16 |-> junk] \o <<>>),
     hash(IV, Zeros(64),
          pad_input_message([i \in 1..16 |-> junk] \o <<>>)).hash_state>> :
   junk \in JunkWords}

\* the leaves of the caller with one word of leaf m changed
MutLeaves(n, m) == [LeafWords(n) EXCEPT ![8 * m + 1] = Not(@)]

\* the tree buf with node k and the nodes above it hashed again over lv
RECURSIVE PatchPath(_, _, _)
PatchPath(lv, buf, k) ==
  IF k = 0 THEN buf
  ELSE LET n == Len(lv) \div 8
           msg == IF 2 * k >= n
                  THEN SubSeq(lv, 16 * k - 8 * n + 1, 16 * k - 8 * n + 16)
                  ELSE SubSeq(buf, 16 * k + 1, 16 * k + 16)
           d == hash(IV, Zeros(64), pad_input_message(msg)).hash_state
       IN  Only({PatchPath(lv, nb, k \div 2) :
                 nb \in {SubSeq(buf, 1, 8 * k) \o d
                           \o SubSeq(buf, 8 * k + 9, Len(buf))}})

\* the trees over the leaves with one leaf changed
MutTrees ==
  [e \in 1..(MaxLog - 1) |->
     [m \in 1..(2 ^ e) |->
        PatchPath(MutLeaves(2 ^ e, m - 1), KnownTrees[e],
                  (2 ^ e + m - 1) \div 2)] \o <<>>] \o <<>>

\* the messages hashed on the path from the changed leaf to the root
MutDigests ==
  UNION {UNION {{<<pad_input_message(
                     IF 2 * k >= 2 ^ e
                     THEN SubSeq(MutLeaves(2 ^ e, m - 1),
                                 16 * k - 8 * (2 ^ e) + 1,
                                 16 * k - 8 * (2 ^ e) + 16)
                     ELSE SubSeq(MutTrees[e][m], 16 * k + 1, 16 * k + 16)),
                   SubSeq(MutTrees[e][m], 8 * k + 1, 8 * k + 8)>> :
                 k \in {(2 ^ e + m - 1) \div (2 ^ d) : d \in 1..e}} :
                m \in 1..(2 ^ e)} : e \in 1..(MaxLog - 1)}

\* the leaves of the benchmark, memset(i_h, 0xff, i_size), and their trees
OnesLeaves(n) == [i \in 1..(8 * n) |-> W(65535, 65535)] \o <<>>

\* all nodes of one level of such a tree are the same digest: entry h of
\* OnesLevels(n) is the node h levels above the leaves
RECURSIVE OnesLevels(_)
OnesLevels(n) ==
  IF n = 0 THEN <<>>
  ELSE Only({Append(lv, hash(IV, Zeros(64),
                             pad_input_message(below \o below)).hash_state) :
             <<lv, below>> \in
               {<<x, IF n = 1 THEN OnesLeaves(1) ELSE x[n - 1]>> :
                x \in {OnesLevels(n - 1)}}})

OnesNode == OnesLevels(MaxLog - 1)

OnesTrees ==
  [e \in 1..(MaxLog - 1) |->
     [i \in 1..(8 * (2 ^ e)) |->
        IF i <= 8 THEN 0
        ELSE At(OnesNode[e - bin_log((i - 1) \div 8)], (i - 1) % 8)] \o <<>>]
  \o <<>>

\* the messages hashed above the first level of those trees
OnesDigests ==
  UNION {{<<pad_input_message(SubSeq(OnesTrees[e], 16 * k + 1, 16 * k + 16)),
            SubSeq(OnesTrees[e], 8 * k + 1, 8 * k + 8)>> :
          k \in 1..(2 ^ (e - 1) - 1)} : e \in 1..(MaxLog - 1)}

KnownDigests ==
  JunkDigests \cup MutDigests \cup OnesDigests \cup
  UNION {{<<pad_input_message(
              IF 2 * k >= 2 ^ e
              THEN SubSeq(LeafWords(2 ^ e), 16 * k - 8 * (2 ^ e) + 1,
                          16 * k - 8 * (2 ^ e) + 16)
              ELSE SubSeq(KnownTrees[e], 16 * k + 1, 16 * k + 16)),
            SubSeq(KnownTrees[e], 8 * k + 1, 8 * k + 8)>> :
          k \in 1..(2 ^ e - 1)} : e \in 1..MaxLog}

\* sha256::hash(hash_state, msg_schld, padded): the digest left in
\* hash_state.  msg_schld is scratch that hash fills before it reads it; a
\* message whose digest is known is not hashed again.
compute_digest(hash_state, padded) ==
  IF \E e \in KnownDigests : e[1] = padded
  THEN (CHOOSE e \in KnownDigests : e[1] = padded)[2]
  ELSE hash(hash_state, Zeros(64), padded).hash_state

WorkerHash(w) ==
  /\ worker[w].pc = "hash"
  /\ worker' = [worker EXCEPT ![w] =
       [@ EXCEPT !.hash_state = compute_digest(@, worker[w].padded),
                 !.pc = "write", !.j = 0]]
  /\ UNCHANGED <<late, alt, call, test, host, leaf_cnt, i_size, o_size, capacity, leaves,
                 intermediates, orch, root, ipipe, opipe, log>>

----------------------------------------------------------------------------
(* the blocking pipes: sycl::ext::intel::pipe<.., uint32_t, 0> *)

\* a write when the pipe has room: the word is queued
OrchSend(k) ==
  LET o == orch[k]  p == orch_pipe(k)
  IN  /\ o.pc \in {"send0", "send1"}
      /\ Len(ipipe[p]) < capacity
      /\ ipipe' = [ipipe EXCEPT ![p] = Append(@, At(o.padded, o.j))]
      /\ orch' = [orch EXCEPT ![k] = orch_sent(k, o)]
      /\ UNCHANGED <<late, alt, call, test, host, leaf_cnt, i_size, o_size, capacity, leaves,
                     intermediates, root, worker, opipe, log>>

\* a read when a word is queued
WorkerRead(w) ==
  /\ worker[w].pc = "read"
  /\ Len(ipipe[w]) > 0
  /\ worker' = [worker EXCEPT ![w] = worker_received(@, Head(ipipe[w]))]
  /\ ipipe' = [ipipe EXCEPT ![w] = Tail(@)]
  /\ UNCHANGED <<late, alt, call, test, host, leaf_cnt, i_size, o_size, capacity, leaves,
                 intermediates, orch, root, opipe, log>>

\* a pipe without room for a word (capacity 0): the write completes when
\* the reader takes the word
OrchHandsOver(k) ==
  LET o == orch[k]  p == orch_pipe(k)
  IN  /\ capacity = 0
      /\ o.pc \in {"send0", "send1"}
      /\ worker[p].pc = "read"
      /\ worker' = [worker EXCEPT ![p] = worker_received(@, At(o.padded, o.j))]
      /\ orch' = [orch EXCEPT ![k] = orch_sent(k, o)]
      /\ UNCHANGED <<late, alt, call, test, host, leaf_cnt, i_size, o_size, capacity, leaves,
                     intermediates, root, ipipe, opipe, log>>

WorkerWrite(w) ==
  /\ worker[w].pc = "write"
  /\ Len(opipe[w]) < capacity
  /\ opipe' = [opipe EXCEPT ![w] = Append(@, At(worker[w].hash_state, worker[w].j))]
  /\ worker' = [worker EXCEPT ![w] = worker_sent(@)]
  /\ UNCHANGED <<late, alt, call, test, host, leaf_cnt, i_size, o_size, capacity, leaves,
                 intermediates, orch, root, ipipe, log>>

OrchRecv(k) ==
  LET o == orch[k]  p == orch_pipe(k)
  IN  /\ o.pc \in {"recv0", "recv1"}
      /\ Len(opipe[p]) > 0
      /\ orch' = [orch EXCEPT ![k] = orch_received(k, o, Head(opipe[p]))]
      /\ opipe' = [opipe EXCEPT ![p] = Tail(@)]
      /\ UNCHANGED <<late, alt, call, test, host, leaf_cnt, i_size, o_size, capacity, leaves,
                     intermediates, root, worker, ipipe, log>>

WorkerHandsOver(w) ==
  LET k == w \div 2  o == orch[k]
  IN  /\ capacity = 0
      /\ worker[w].pc = "write"
      /\ o.pc \in {"recv0", "recv1"}
      /\ orch_pipe(k) = w
      /\ orch' = [orch EXCEPT ![k] =
           orch_received(k, o, At(worker[w].hash_state, worker[w].j))]
      /\ worker' = [worker EXCEPT ![w] = worker_sent(@)]
      /\ UNCHANGED <<late, alt, call, test, host, leaf_cnt, i_size, o_size, capacity, leaves,
                     intermediates, root, ipipe, opipe, log>>

----------------------------------------------------------------------------
(* kernelMerklizationOrchestrator2: runs once evt0 and evt1 are complete *)

\* variant: h.depends_on({ evt0 })
depends_on_evt0 == orch[0].pc = "done"

\* h.depends_on({ evt0, evt1 })
depends_on == orch[0].pc = "done" /\ orch[1].pc = "done"

\* msg[j] = intermediates_ptr[16 + j]
root_i_offset == 16

\* intermediates_ptr[8 + j] = hash_state[j]
root_o_offset == 8

RootLoad ==
  /\ root.pc = "start"
  /\ depends_on
  /\ \E junk \in (IF read_ok("ri", root_i_offset) THEN {0} ELSE JunkWords) :
       LET msg == [j \in 1..16 |->
                     load_intermediate(root_i_offset + j - 1, junk)] \o <<>>
       IN  root' = [root EXCEPT !.msg = msg, !.padded = pad_input_message(msg),
                                !.pc = "hash"]
  /\ log' = [log EXCEPT ![2] =
       Append(@, [op |-> "ri", at |-> root_i_offset,
                  ok |-> read_ok("ri", root_i_offset)])]
  /\ UNCHANGED <<late, alt, call, test, host, leaf_cnt, i_size, o_size, capacity, leaves,
                 intermediates, orch, worker, ipipe, opipe>>

RootHash ==
  /\ root.pc = "hash"
  /\ root' = [root EXCEPT !.hash_state = compute_digest(@, root.padded),
                          !.pc = "store"]
  /\ UNCHANGED <<late, alt, call, test, host, leaf_cnt, i_size, o_size, capacity, leaves,
                 intermediates, orch, worker, ipipe, opipe, log>>

RootStore ==
  /\ root.pc = "store"
  /\ intermediates' = store_digest(intermediates, root_o_offset, root.hash_state)
  /\ log' = [log EXCEPT ![2] =
       Append(@, [op |-> "wi", at |-> root_o_offset,
                  ok |-> write_ok(root_o_offset)])]
  /\ root' = [root EXCEPT !.pc = "done"]
  /\ UNCHANGED <<late, alt, call, test, host, leaf_cnt, i_size, o_size, capacity, leaves,
                 orch, worker, ipipe, opipe>>

----------------------------------------------------------------------------
(* merklize(): the host thread *)

\* the two asserts, then every kernel is submitted to the queue
Submit ==
  /\ host = "called"
  /\ IF i_size = o_size /\ is_pow2(leaf_cnt)
     THEN /\ host' = "waiting"
          /\ orch' = [k \in Orchs |-> [orch[k] EXCEPT !.pc = "start"]]
          /\ root' = [root EXCEPT !.pc = "start"]
          /\ worker' = [w \in Workers |-> [worker[w] EXCEPT !.pc = "read"]]
     ELSE /\ host' = "aborted"
          /\ UNCHANGED <<orch, root, worker>>
  /\ UNCHANGED <<late, alt, call, test, leaf_cnt, i_size, o_size, capacity, leaves, intermediates,
                 ipipe, opipe, log>>

\* variant: the host waits for evt0 where the function waits for evt2
Wait_evt0 ==
  /\ host = "waiting"
  /\ orch[0].pc = "done"
  /\ host' = "returned"
  /\ UNCHANGED <<late, alt, call, test, leaf_cnt, i_size, o_size, capacity, leaves, intermediates,
                 orch, root, worker, ipipe, opipe, log>>

\* evt2.wait() returns
Wait ==
  /\ host = "waiting"
  /\ root.pc = "done"
  /\ host' = "returned"
  /\ UNCHANGED <<late, alt, call, test, leaf_cnt, i_size, o_size, capacity, leaves, intermediates,
                 orch, root, worker, ipipe, opipe, log>>

----------------------------------------------------------------------------
(* merklize() called again on the same queue *)

\* bound: calls of merklize() made one after the other
MaxRuns == 2

\* bound: the kernels kernelSHA256Hash<w> whose later instance the model
\* lets start while the instance of the earlier call is still running
LateWorkers == {0}

\* one call so far: no later instance of a compute kernel exists
NoLate ==
  [calls |-> 1,
   inst |-> [w \in LateWorkers |->
               [pc |-> "none", j |-> 0, padded |-> Zeros(32),
                hash_state |-> Zeros(8)]]]

\* benchmark_merklize runs again: new allocations, the same leaves, and
\* merklize() is called
Recall ==
  /\ host = "returned"
  /\ late.calls < MaxRuns
  /\ host' = "called"
  /\ late' = [late EXCEPT !.calls = @ + 1]
  /\ intermediates' = Zeros(IntermediatesLen)
  /\ log' = [k \in 0..2 |-> <<>>]
  /\ UNCHANGED <<alt, call, test, leaf_cnt, i_size, o_size, capacity, leaves,
                 orch, root, worker, ipipe, opipe>>

\* the queue is out of order and the later kernelSHA256Hash<w> depends on
\* no event: the runtime may start it beside the earlier instance, which
\* never ends, or hold it back for ever (this step is then never taken)
LateStart(w) ==
  /\ late.calls >= 2
  /\ host \in {"waiting", "returned"}
  /\ w \in LateWorkers
  /\ late.inst[w].pc = "none"
  /\ late' = [late EXCEPT !.inst[w].pc = "read"]
  /\ UNCHANGED <<alt, call, test, host, leaf_cnt, i_size, o_size, capacity,
                 leaves, intermediates, orch, root, worker, ipipe, opipe, log>>

\* ipipe::read() of the later instance takes the word that is queued
LateRead(w) ==
  /\ late.inst[w].pc = "read"
  /\ Len(ipipe[w]) > 0
  /\ late' = [late EXCEPT !.inst[w] = worker_received(@, Head(ipipe[w]))]
  /\ ipipe' = [ipipe EXCEPT ![w] = Tail(@)]
  /\ UNCHANGED <<alt, call, test, host, leaf_cnt, i_size, o_size, capacity,
                 leaves, intermediates, orch, root, worker, opipe, log>>

\* capacity 0: the write of orchestrator k completes with the read of the
\* later instance
LateTakes(k) ==
  LET o == orch[k]  p == orch_pipe(k)
  IN  /\ capacity = 0
      /\ o.pc \in {"send0", "send1"}
      /\ p \in LateWorkers
      /\ late.inst[p].pc = "read"
      /\ late' = [late EXCEPT !.inst[p] = worker_received(@, At(o.padded, o.j))]
      /\ orch' = [orch EXCEPT ![k] = orch_sent(k, o)]
      /\ UNCHANGED <<alt, call, test, host, leaf_cnt, i_size, o_size,
                     capacity, leaves, intermediates, root, worker, ipipe,
                     opipe, log>>

LateHash(w) ==
  /\ late.inst[w].pc = "hash"
  /\ late' = [late EXCEPT !.inst[w] =
       [@ EXCEPT !.hash_state = compute_digest(@, late.inst[w].padded),
                 !.pc = "write", !.j = 0]]
  /\ UNCHANGED <<alt, call, test, host, leaf_cnt, i_size, o_size, capacity,
                 leaves, intermediates, orch, root, worker, ipipe, opipe, log>>

LateWrite(w) ==
  /\ late.inst[w].pc = "write"
  /\ Len(opipe[w]) < capacity
  /\ opipe' = [opipe EXCEPT ![w] =
       Append(@, At(late.inst[w].hash_state, late.inst[w].j))]
  /\ late' = [late EXCEPT !.inst[w] = worker_sent(@)]
  /\ UNCHANGED <<alt, call, test, host, leaf_cnt, i_size, o_size, capacity,
                 leaves, intermediates, orch, root, worker, ipipe, log>>

LateHandsOver(w) ==
  LET k == w \div 2  o == orch[k]
  IN  /\ capacity = 0
      /\ late.inst[w].pc = "write"
      /\ o.pc \in {"recv0", "recv1"}
      /\ orch_pipe(k) = w
      /\ orch' = [orch EXCEPT ![k] =
           orch_received(k, o, At(late.inst[w].hash_state, late.inst[w].j))]
      /\ late' = [late EXCEPT !.inst[w] = worker_sent(@)]
      /\ UNCHANGED <<alt, call, test, host, leaf_cnt, i_size, o_size,
                     capacity, leaves, intermediates, root, worker, ipipe,
                     opipe, log>>

----------------------------------------------------------------------------
(* merklize() of the second header, in include/utils.hpp from line 41 on:
   kernelMerklizationOrchestrator, kernelSHA256Hash0 and 1 *)

AltWorkers == {0, 1}

\* 2^64 - 1, the size_t that 0 - 1 is: TLC's integers end at 2^31 - 1, which
\* is above every count a behavior of the model reaches
SIZE_MAX == 2147483647

\* size_t n - 1
dec(n) == IF n = 0 THEN SIZE_MAX ELSE n - 1

\* nothing is submitted; osz bytes of intermediates are allocated
AltIdle(osz) ==
  [host |-> "idle",
   intermediates |-> Zeros(osz \div 4),
   orch |-> [pc |-> "idle", stage |-> 0, i |-> 0, j |-> 0, msg |-> Zeros(16),
             padded |-> Zeros(32), digest |-> Zeros(8)],
   worker |-> [w \in AltWorkers |->
                 [pc |-> "idle", r |-> 0, j |-> 0, padded |-> Zeros(32),
                  hash_state |-> Zeros(8)]],
   ipipe |-> [w \in AltWorkers |-> <<>>],
   opipe |-> [w \in AltWorkers |-> <<>>],
   sent |-> [w \in AltWorkers |-> 0],
   log |-> <<>>]

\* this merklize is not called: no buffer of it is allocated and no kernel
\* of it exists
AltNone ==
  [host |-> "idle",
   intermediates |-> <<>>,
   orch |-> [pc |-> "idle", stage |-> 0, i |-> 0, j |-> 0, msg |-> <<>>,
             padded |-> <<>>, digest |-> <<>>],
   worker |-> [w \in AltWorkers |->
                 [pc |-> "idle", r |-> 0, j |-> 0, padded |-> <<>>,
                  hash_state |-> <<>>]],
   ipipe |-> [w \in AltWorkers |-> <<>>],
   opipe |-> [w \in AltWorkers |-> <<>>],
   sent |-> [w \in AltWorkers |-> 0],
   log |-> <<>>]

\* words of alt.intermediates the orchestrator has stored to so far
AltWritten ==
  UNION {Burst(alt.log[e].at, 8) \cap 0..(IntermediatesLen - 1) :
         e \in {x \in DOMAIN alt.log : alt.log[x].op = "wi"}}

alt_load_intermediate(idx, junk) ==
  IF idx < IntermediatesLen /\ idx \in AltWritten
  THEN At(alt.intermediates, idx) ELSE junk

alt_read_ok(buf, base) ==
  IF buf = "rl" THEN base + 16 <= LeavesLen
  ELSE \A idx \in Burst(base, 16) : idx < IntermediatesLen /\ idx \in AltWritten

\* first loop: over pairs of leaves
alt_leaf_o_offset == shl(shr(leaf_cnt, 1), 3)

alt_leaf_itr_cnt == shr(leaf_cnt, 1)

\* second loop: rounds = bin_log(leaf_cnt >> 1) - 1
alt_rounds_cnt == dec(bin_log(shr(leaf_cnt, 1)))

\* (leaf_cnt << 2) >> r; for 31 <= r < 64 every bit of it is shifted out
alt_round_i_offset(r) == IF r > 30 THEN 0 ELSE shr(shl(leaf_cnt, 2), r)

alt_round_o_offset(r) == shr(alt_round_i_offset(r), 1)

alt_round_itr_cnt(r) == shr(leaf_cnt, r + 2)

\* o.stage = 0 is the loop over leaves, o.stage = r + 1 is round r, and
\* o.stage = rounds + 1 is the root
alt_is_root(o) == o.stage > alt_rounds_cnt

alt_i_offset(o) ==
  IF o.stage = 0 THEN 0
  ELSE IF alt_is_root(o) THEN 16
  ELSE alt_round_i_offset(o.stage - 1)

\* variant: the root is stored at intermediates_ptr[j]
alt_o_offset_root_first(o) ==
  IF o.stage = 0 THEN alt_leaf_o_offset
  ELSE IF alt_is_root(o) THEN 0
  ELSE alt_round_o_offset(o.stage - 1)

alt_o_offset(o) ==
  IF o.stage = 0 THEN alt_leaf_o_offset
  ELSE IF alt_is_root(o) THEN 8
  ELSE alt_round_o_offset(o.stage - 1)

alt_i_offset_0(o) == alt_i_offset(o) + shl(o.i, 4)

alt_i_offset_1(o) == alt_i_offset(o) + shl(o.i + 1, 4)

alt_o_offset_0(o) == alt_o_offset(o) + shl(o.i, 3)

\* variant: the second digest of an iteration goes where the first went
alt_o_offset_1_first(o) == alt_o_offset(o) + shl(o.i, 3)

alt_o_offset_1(o) == alt_o_offset(o) + shl(o.i + 1, 3)

\* control reaches the head of the loop over i of stage s with counter i.
\* With rounds = 2^64 - 1 (leaf_cnt < 4) the loop over r has no end the
\* run can reach, and its iterations r < 62 have itr_cnt = 0: the kernel
\* spins in it (see AltOrchShift for r = 62).
RECURSIVE alt_loop_head(_, _, _)
alt_loop_head(o, s, i) ==
  LET cnt == IF s = 0 THEN alt_leaf_itr_cnt ELSE alt_round_itr_cnt(s - 1)
  IN  IF s > 0 /\ alt_rounds_cnt = SIZE_MAX
      THEN [o EXCEPT !.pc = "spin", !.stage = s, !.i = 0, !.j = 0]
      ELSE IF s > alt_rounds_cnt
      THEN [o EXCEPT !.pc = "load0", !.stage = s, !.i = 0, !.j = 0]
      ELSE IF i < cnt
      THEN [o EXCEPT !.pc = "load0", !.stage = s, !.i = i, !.j = 0]
      ELSE alt_loop_head(o, s + 1, 0)

\* ipipe::write(padded[j]) has completed: the second message of the
\* iteration follows the first one, whatever itr_cnt is; the root is one
\* message
alt_orch_sent(o) ==
  IF o.j < 31 THEN [o EXCEPT !.j = o.j + 1]
  ELSE IF o.pc = "send0" /\ ~ alt_is_root(o) THEN [o EXCEPT !.pc = "load1", !.j = 0]
  ELSE [o EXCEPT !.pc = "recv0", !.j = 0]

\* digest[j] = opipe::read() has returned word
alt_orch_received(o, word) ==
  LET d == [o.digest EXCEPT ![o.j + 1] = word]
  IN  IF o.j < 7 THEN [o EXCEPT !.digest = d, !.j = o.j + 1]
      ELSE [o EXCEPT !.digest = d, !.j = 0,
                     !.pc = IF o.pc = "recv0" THEN "store0" ELSE "store1"]

alt_orch_stored(o) ==
  IF o.pc = "store0"
  THEN IF alt_is_root(o) THEN [o EXCEPT !.pc = "done", !.j = 0]
       ELSE [o EXCEPT !.pc = "recv1", !.j = 0]
  ELSE alt_loop_head(o, o.stage, o.i + 2)

\* the pipe the orchestrator is writing to or reading from
alt_orch_pipe == IF alt.orch.pc \in {"send0", "recv0"} THEN 0 ELSE 1

\* variant: both compute kernels make leaf_cnt >> 1 rounds
alt_worker_rounds_same(w) == shr(leaf_cnt, 1)

\* rounds of kernelSHA256Hash0 and of kernelSHA256Hash1
alt_worker_rounds(w) ==
  IF w = 0 THEN shr(leaf_cnt, 1) ELSE dec(shr(leaf_cnt, 1))

\* the kernel reaches the head of its loop over r
alt_worker_head(w, x) ==
  IF x.r < alt_worker_rounds(w) THEN [x EXCEPT !.pc = "read", !.j = 0]
  ELSE [x EXCEPT !.pc = "done", !.j = 0]

\* padded[i] = ipipe::read() has returned word
alt_worker_received(x, word) ==
  LET p == [x.padded EXCEPT ![x.j + 1] = word]
  IN  IF x.j < 31 THEN [x EXCEPT !.padded = p, !.j = x.j + 1]
      ELSE [x EXCEPT !.padded = p, !.j = 0, !.pc = "hash"]

\* opipe::write(hash_state[i]) has completed
alt_worker_sent(w, x) ==
  IF x.j < 7 THEN [x EXCEPT !.j = x.j + 1]
  ELSE alt_worker_head(w, [x EXCEPT !.r = x.r + 1])

\* the two asserts, then the three kernels are submitted
AltSubmit ==
  /\ alt.host = "called"
  /\ IF i_size = o_size /\ is_pow2(leaf_cnt)
     THEN alt' = [alt EXCEPT !.host = "waiting", !.orch.pc = "start",
                             !.worker = [w \in AltWorkers |->
                                           [alt.worker[w] EXCEPT !.pc = "start"]]]
     ELSE alt' = [alt EXCEPT !.host = "aborted"]
  /\ UNCHANGED <<late, host, leaf_cnt, i_size, o_size, capacity, leaves,
                 intermediates, orch, root, worker, ipipe, opipe, log, test,
                 call>>

AltOrchStart ==
  /\ alt.orch.pc = "start"
  /\ alt' = [alt EXCEPT !.orch = alt_loop_head(@, 0, 0)]
  /\ UNCHANGED <<late, host, leaf_cnt, i_size, o_size, capacity, leaves,
                 intermediates, orch, root, worker, ipipe, opipe, log, test,
                 call>>

AltWorkerStart(w) ==
  /\ alt.worker[w].pc = "start"
  /\ alt' = [alt EXCEPT !.worker[w] = alt_worker_head(w, @)]
  /\ UNCHANGED <<late, host, leaf_cnt, i_size, o_size, capacity, leaves,
                 intermediates, orch, root, worker, ipipe, opipe, log, test,
                 call>>

\* bits of size_t
SizeBits == 64

\* the spinning loop reaches r = 62, where itr_cnt = leaf_cnt >> (r + 2)
\* shifts by the width of size_t, which is undefined: a build that shifts
\* every bit out gives 0 and the kernel spins on (no step); a build that
\* takes the count modulo 64 gives leaf_cnt, and the loop over i runs with
\* i_offset = (leaf_cnt << 2) >> 62 = 0
AltOrchShift ==
  /\ alt.orch.pc = "spin"
  /\ leaf_cnt > 0
  /\ alt' = [alt EXCEPT !.orch = [@ EXCEPT !.pc = "load0", !.i = 0, !.j = 0,
                                           !.stage = SizeBits - 1]]
  /\ UNCHANGED <<late, host, leaf_cnt, i_size, o_size, capacity, leaves,
                 intermediates, orch, root, worker, ipipe, opipe, log, test,
                 call>>

\* msg[j] = leaves_ptr[..] or intermediates_ptr[..], j < 16, and
\* pad_input_message(msg, padded)
AltOrchLoad ==
  LET o == alt.orch
      base == IF o.pc = "load0" THEN alt_i_offset_0(o) ELSE alt_i_offset_1(o)
      buf == IF o.stage = 0 THEN "rl" ELSE "ri"
  IN  /\ o.pc \in {"load0", "load1"}
      /\ \E junk \in (IF alt_read_ok(buf, base) THEN {0} ELSE JunkWords) :
           LET msg == [j \in 1..16 |->
                         IF buf = "rl" THEN load_leaf(base + j - 1, junk)
                         ELSE alt_load_intermediate(base + j - 1, junk)] \o <<>>
           IN  alt' = [alt EXCEPT
                 !.orch = [o EXCEPT !.msg = msg,
                                    !.padded = pad_input_message(msg),
                                    !.pc = IF o.pc = "load0" THEN "send0"
                                           ELSE "send1",
                                    !.j = 0],
                 !.log = Append(@, [op |-> buf, at |-> base,
                                    ok |-> alt_read_ok(buf, base)])]
      /\ UNCHANGED <<late, host, leaf_cnt, i_size, o_size, capacity, leaves,
                     intermediates, orch, root, worker, ipipe, opipe, log,
                     test, call>>

\* the count of whole messages written to pipe p, after one more word
alt_sent(o, p) == IF o.j = 31 THEN alt.sent[p] + 1 ELSE alt.sent[p]

\* a write when the pipe has room for the word
AltOrchSend ==
  LET o == alt.orch  p == alt_orch_pipe
  IN  /\ o.pc \in {"send0", "send1"}
      /\ Len(alt.ipipe[p]) < capacity
      /\ alt' = [alt EXCEPT !.ipipe[p] = Append(@, At(o.padded, o.j)),
                            !.sent[p] = alt_sent(o, p),
                            !.orch = alt_orch_sent(o)]
      /\ UNCHANGED <<late, host, leaf_cnt, i_size, o_size, capacity, leaves,
                     intermediates, orch, root, worker, ipipe, opipe, log,
                     test, call>>

\* a pipe without room for a word (capacity 0): the write completes when
\* the reader takes the word
AltOrchHandsOver ==
  LET o == alt.orch  p == alt_orch_pipe
  IN  /\ capacity = 0
      /\ o.pc \in {"send0", "send1"}
      /\ alt.worker[p].pc = "read"
      /\ alt' = [alt EXCEPT
           !.worker[p] = alt_worker_received(@, At(o.padded, o.j)),
           !.sent[p] = alt_sent(o, p),
           !.orch = alt_orch_sent(o)]
      /\ UNCHANGED <<late, host, leaf_cnt, i_size, o_size, capacity, leaves,
                     intermediates, orch, root, worker, ipipe, opipe, log,
                     test, call>>

AltWorkerRead(w) ==
  /\ alt.worker[w].pc = "read"
  /\ Len(alt.ipipe[w]) > 0
  /\ alt' = [alt EXCEPT
       !.worker[w] = alt_worker_received(@, Head(alt.ipipe[w])),
       !.ipipe[w] = Tail(@)]
  /\ UNCHANGED <<late, host, leaf_cnt, i_size, o_size, capacity, leaves,
                 intermediates, orch, root, worker, ipipe, opipe, log, test,
                 call>>

AltWorkerHash(w) ==
  /\ alt.worker[w].pc = "hash"
  /\ alt' = [alt EXCEPT
       !.worker[w] =
          [@ EXCEPT !.hash_state = compute_digest(@, alt.worker[w].padded),
                    !.pc = "write", !.j = 0]]
  /\ UNCHANGED <<late, host, leaf_cnt, i_size, o_size, capacity, leaves,
                 intermediates, orch, root, worker, ipipe, opipe, log, test,
                 call>>

AltWorkerWrite(w) ==
  /\ alt.worker[w].pc = "write"
  /\ Len(alt.opipe[w]) < capacity
  /\ alt' = [alt EXCEPT
       !.opipe[w] = Append(@, At(alt.worker[w].hash_state, alt.worker[w].j)),
       !.worker[w] = alt_worker_sent(w, @)]
  /\ UNCHANGED <<late, host, leaf_cnt, i_size, o_size, capacity, leaves,
                 intermediates, orch, root, worker, ipipe, opipe, log, test,
                 call>>

AltWorkerHandsOver(w) ==
  LET o == alt.orch
  IN  /\ capacity = 0
      /\ alt.worker[w].pc = "write"
      /\ o.pc \in {"recv0", "recv1"}
      /\ alt_orch_pipe = w
      /\ alt' = [alt EXCEPT
           !.orch = alt_orch_received(o, At(alt.worker[w].hash_state,
                                            alt.worker[w].j)),
           !.worker[w] = alt_worker_sent(w, @)]
      /\ UNCHANGED <<late, host, leaf_cnt, i_size, o_size, capacity, leaves,
                     intermediates, orch, root, worker, ipipe, opipe, log,
                     test, call>>

AltOrchRecv ==
  LET o == alt.orch  p == alt_orch_pipe
  IN  /\ o.pc \in {"recv0", "recv1"}
      /\ Len(alt.opipe[p]) > 0
      /\ alt' = [alt EXCEPT !.orch = alt_orch_received(o, Head(alt.opipe[p])),
                            !.opipe[p] = Tail(@)]
      /\ UNCHANGED <<late, host, leaf_cnt, i_size, o_size, capacity, leaves,
                     intermediates, orch, root, worker, ipipe, opipe, log,
                     test, call>>

\* intermediates_ptr[o_offset + j] = digest[j], j < 8
AltOrchStore ==
  LET o == alt.orch
      base == IF o.pc = "store0" THEN alt_o_offset_0(o) ELSE alt_o_offset_1(o)
  IN  /\ o.pc \in {"store0", "store1"}
      /\ alt' = [alt EXCEPT
           !.intermediates = store_digest(@, base, o.digest),
           !.log = Append(@, [op |-> "wi", at |-> base, ok |-> write_ok(base)]),
           !.orch = alt_orch_stored(o)]
      /\ UNCHANGED <<late, host, leaf_cnt, i_size, o_size, capacity, leaves,
                     intermediates, orch, root, worker, ipipe, opipe, log,
                     test, call>>

\* evt0.wait() returns
AltWait ==
  /\ alt.host = "waiting"
  /\ alt.orch.pc = "done"
  /\ alt' = [alt EXCEPT !.host = "returned"]
  /\ UNCHANGED <<late, host, leaf_cnt, i_size, o_size, capacity, leaves,
                 intermediates, orch, root, worker, ipipe, opipe, log, test,
                 call>>

AltNext ==
  \/ AltSubmit
  \/ AltOrchStart
  \/ \E w \in AltWorkers : AltWorkerStart(w)
  \/ AltOrchShift
  \/ AltOrchLoad
  \/ AltOrchSend
  \/ AltOrchHandsOver
  \/ AltOrchRecv
  \/ AltOrchStore
  \/ \E w \in AltWorkers : AltWorkerRead(w)
  \/ \E w \in AltWorkers : AltWorkerHash(w)
  \/ \E w \in AltWorkers : AltWorkerWrite(w)
  \/ \E w \in AltWorkers : AltWorkerHandsOver(w)
  \/ AltWait

----------------------------------------------------------------------------
(* include/utils.hpp: byte order conversions *)

\* variant: byte 0 is taken as the least significant byte
from_be_bytes_reversed(in, off) ==
  Or(Or(Or(Shl(At(in, off + 3), 24), Shl(At(in, off + 2), 16)),
        Shl(At(in, off + 1), 8)),
     Shl(At(in, off + 0), 0))

\* from_be_bytes(in + off): the word made of bytes off .. off + 3 of in
from_be_bytes(in, off) ==
  Or(Or(Or(Shl(At(in, off + 0), 24), Shl(At(in, off + 1), 16)),
        Shl(At(in, off + 2), 8)),
     Shl(At(in, off + 3), 0))

\* to_be_bytes(word, out): the four bytes left in out
to_be_bytes(word) ==
  [i \in 1..4 |-> And(Shr(word, 24 - 8 * (i - 1)), 255)] \o <<>>

----------------------------------------------------------------------------
(* the test program: kernelSHA256Test and the host's assertion *)

\* bounds of the test inputs: byte i of the input is (a * i + b) % 256 for
\* a in 0 .. TestMul and b in 0 .. TestAdd; the program's own input is
\* a = 1, b = 0
TestMul == 2

TestAdd == 5

TestBytes(a, b) == [i \in 1..64 |-> (a * (i - 1) + b) % 256] \o <<>>

expected ==
  <<253, 234, 185, 172, 243, 113, 3, 98, 189, 38, 88, 205, 201, 162, 158, 143,
    156, 117, 127, 207, 152, 17, 96, 58, 140, 68, 124, 209, 217, 21, 17, 8>>

\* no function is called on its own
NoCall == [fn |-> "none"]

\* the kernel has not been submitted; its arrays hold nothing yet
TestIdle ==
  [pc |-> "idle", in |-> <<>>, in_words |-> <<>>, padded |-> <<>>,
   hash_state |-> <<>>, digest |-> <<>>, res |-> FALSE]

\* in_words[i] = from_be_bytes(in_ptr + (i << 2))
TestWords ==
  /\ test.pc = "words"
  /\ test' = [test EXCEPT
       !.in_words = [i \in 1..16 |-> from_be_bytes(test.in, shl(i - 1, 2))]
                      \o <<>>,
       !.pc = "pad"]
  /\ UNCHANGED <<late, alt, call, host, leaf_cnt, i_size, o_size, capacity, leaves,
                 intermediates, orch, root, worker, ipipe, opipe, log>>

TestPad ==
  /\ test.pc = "pad"
  /\ test' = [test EXCEPT !.padded = pad_input_message(test.in_words),
                          !.pc = "hash"]
  /\ UNCHANGED <<late, alt, call, host, leaf_cnt, i_size, o_size, capacity, leaves,
                 intermediates, orch, root, worker, ipipe, opipe, log>>

\* hash_state and msg_schld are uninitialised when hash is called; hash writes
\* every word of both before it reads it
TestHash ==
  /\ test.pc = "hash"
  /\ test' = [test EXCEPT
       !.hash_state = hash(Zeros(8), Zeros(64), test.padded).hash_state,
       !.pc = "bytes"]
  /\ UNCHANGED <<late, alt, call, host, leaf_cnt, i_size, o_size, capacity, leaves,
                 intermediates, orch, root, worker, ipipe, opipe, log>>

\* to_be_bytes(hash_state_ptr[i], digest_ptr + (i << 2))
TestBytesOut ==
  /\ test.pc = "bytes"
  /\ test' = [test EXCEPT
       !.digest = [i \in 1..32 |->
                     to_be_bytes(At(test.hash_state, (i - 1) \div 4))
                       [((i - 1) % 4) + 1]] \o <<>>,
       !.pc = "compare"]
  /\ UNCHANGED <<late, alt, call, host, leaf_cnt, i_size, o_size, capacity, leaves,
                 intermediates, orch, root, worker, ipipe, opipe, log>>

\* _res &= (digest[i] == expected[i]); res_d[0] = _res
TestCompare ==
  /\ test.pc = "compare"
  /\ test' = [test EXCEPT
       !.res = \A i \in 0..31 : At(test.digest, i) = At(expected, i),
       !.pc = "done"]
  /\ UNCHANGED <<late, alt, call, host, leaf_cnt, i_size, o_size, capacity, leaves,
                 intermediates, orch, root, worker, ipipe, opipe, log>>

\* the host copies the result back and asserts it
TestAssert ==
  /\ host = "testing"
  /\ test.pc = "done"
  /\ host' = IF test.res = TRUE THEN "passed" ELSE "aborted"
  /\ UNCHANGED <<late, alt, call, test, leaf_cnt, i_size, o_size, capacity, leaves,
                 intermediates, orch, root, worker, ipipe, opipe, log>>

\* the test program has submitted its kernel, which has filled in; no
\* merklize kernel exists
TestInit ==
  /\ host = "testing"
  /\ leaf_cnt = 0
  /\ i_size = 0
  /\ o_size = 0
  /\ capacity = 0
  /\ leaves = <<>>
  /\ intermediates = <<>>
  /\ orch = [k \in Orchs |->
       [pc |-> "idle", stage |-> 0, i |-> 0, j |-> 0, msg |-> Zeros(16),
        padded |-> Zeros(32), digest |-> Zeros(8)]]
  /\ root = [pc |-> "idle", msg |-> Zeros(16), padded |-> Zeros(32),
             hash_state |-> Zeros(8)]
  /\ worker = [w \in Workers |->
       [pc |-> "idle", j |-> 0, padded |-> Zeros(32), hash_state |-> Zeros(8)]]
  /\ ipipe = [w \in Workers |-> <<>>]
  /\ opipe = [w \in Workers |-> <<>>]
  /\ log = [k \in 0..2 |-> <<>>]
  /\ \E a \in 0..TestMul : \E b \in 0..TestAdd :
       test = [TestIdle EXCEPT !.pc = "words", !.in = TestBytes(a, b)]
  /\ call = NoCall
  /\ alt = AltNone
  /\ late = NoLate

TestNext ==
  \/ TestWords
  \/ TestPad
  \/ TestHash
  \/ TestBytesOut
  \/ TestCompare
  \/ TestAssert

TestSpec == TestInit /\ [][TestNext]_vars

----------------------------------------------------------------------------
\* merklize(q, n, leaves, isz, intermediates, osz) is called; lv is the
\* content of the isz bytes of leaves
CalledWith(n, isz, osz, lv, cap) ==
  /\ host = "called"
  /\ leaf_cnt = n
  /\ i_size = isz
  /\ o_size = osz
  /\ capacity = cap
  /\ leaves = lv
  /\ intermediates = Zeros(osz \div 4)
  /\ orch = [k \in Orchs |->
       [pc |-> "idle", stage |-> 0, i |-> 0, j |-> 0, msg |-> Zeros(16),
        padded |-> Zeros(32), digest |-> Zeros(8)]]
  /\ root = [pc |-> "idle", msg |-> Zeros(16), padded |-> Zeros(32),
             hash_state |-> Zeros(8)]
  /\ worker = [w \in Workers |->
       [pc |-> "idle", j |-> 0, padded |-> Zeros(32), hash_state |-> Zeros(8)]]
  /\ ipipe = [w \in Workers |-> <<>>]
  /\ opipe = [w \in Workers |-> <<>>]
  /\ log = [k \in 0..2 |-> <<>>]
  /\ test = TestIdle
  /\ call = NoCall
  /\ alt = AltNone
  /\ late = NoLate

\* merklize is called as benchmark_merklize calls it, with n leaves
Called(n, cap) == CalledWith(n, shl(n, 5), shl(n, 5), LeafWords(n), cap)

Init == \E e \in 1..MaxLog : \E cap \in 0..(MaxLog - e) : Called(2 ^ e, cap)

Next ==
  \/ Submit
  \/ \E k \in Orchs : OrchStart(k)
  \/ \E k \in Orchs : OrchLoad(k)
  \/ \E k \in Orchs : OrchSend(k)
  \/ \E k \in Orchs : OrchHandsOver(k)
  \/ \E k \in Orchs : OrchRecv(k)
  \/ \E k \in Orchs : OrchStore(k)
  \/ \E w \in Workers : WorkerRead(w)
  \/ \E w \in Workers : WorkerHash(w)
  \/ \E w \in Workers : WorkerWrite(w)
  \/ \E w \in Workers : WorkerHandsOver(w)
  \/ RootLoad
  \/ RootHash
  \/ RootStore
  \/ Wait

Spec == Init /\ [][Next]_vars

\* every kernel is a circuit of its own that runs whenever it can
FairSpec == Spec /\ WF_vars(Next)

\* merklize called by any caller: leaf_cnt of any value up to half the
\* largest tree, each buffer of the size benchmark_merklize gives it or of
\* half that size
CallInit ==
  \E n \in 0..(2 ^ (MaxLog - 1)) : \E cap \in 0..1 :
    \E isz \in {shl(n, 5), shl(n, 4)} : \E osz \in {shl(n, 5), shl(n, 4)} :
      CalledWith(n, isz, osz, SubSeq(LeafWords(n), 1, isz \div 4), cap)

CallSpec == CallInit /\ [][Next]_vars

\* merklize called a second time on leaves of which one leaf was changed
\* (pipes of capacity 1 are tried with the first leaf changed)
MutInit ==
  \E e \in 1..(MaxLog - 1) : \E m \in 0..(2 ^ e - 1) :
    \E cap \in 0..(IF m = 0 THEN 1 ELSE 0) :
      CalledWith(2 ^ e, shl(2 ^ e, 5), shl(2 ^ e, 5), MutLeaves(2 ^ e, m), cap)

MutSpec == MutInit /\ [][Next]_vars

----------------------------------------------------------------------------
(* the second merklize, called as benchmark_merklize calls the first *)

\* merklize of the second header is called with n leaves; the first one is
\* not
AltCalled(n, cap) ==
  /\ host = "idle"
  /\ leaf_cnt = n
  /\ i_size = shl(n, 5)
  /\ o_size = shl(n, 5)
  /\ capacity = cap
  /\ leaves = LeafWords(n)
  /\ intermediates = Zeros(8 * n)
  /\ orch = [k \in Orchs |->
       [pc |-> "idle", stage |-> 0, i |-> 0, j |-> 0, msg |-> Zeros(16),
        padded |-> Zeros(32), digest |-> Zeros(8)]]
  /\ root = [pc |-> "idle", msg |-> Zeros(16), padded |-> Zeros(32),
             hash_state |-> Zeros(8)]
  /\ worker = [w \in Workers |->
       [pc |-> "idle", j |-> 0, padded |-> Zeros(32), hash_state |-> Zeros(8)]]
  /\ ipipe = [w \in Workers |-> <<>>]
  /\ opipe = [w \in Workers |-> <<>>]
  /\ log = [k \in 0..2 |-> <<>>]
  /\ test = TestIdle
  /\ call = NoCall
  /\ alt = [AltIdle(shl(n, 5)) EXCEPT !.host = "called"]
  /\ late = NoLate

AltInit ==
  \E n \in {0, 1} \cup {2 ^ e : e \in 1..MaxLog} : \E cap \in 0..1 :
    AltCalled(n, cap)

AltSpec == AltInit /\ [][AltNext]_vars

AltFairSpec == AltSpec /\ WF_vars(AltNext)

\* merklize() is called MaxRuns times on one queue, as avg_kernel_exec_tm
\* calls it
RepeatInit ==
  \E e \in 1..(MaxLog - 1) : \E cap \in 0..1 :
    CalledWith(2 ^ e, shl(2 ^ e, 5), shl(2 ^ e, 5), OnesLeaves(2 ^ e), cap)

RepeatNext ==
  \/ Next
  \/ Recall
  \/ \E w \in LateWorkers : LateStart(w)
  \/ \E w \in LateWorkers : LateRead(w)
  \/ \E k \in Orchs : LateTakes(k)
  \/ \E w \in LateWorkers : LateHash(w)
  \/ \E w \in LateWorkers : LateWrite(w)
  \/ \E w \in LateWorkers : LateHandsOver(w)

RepeatSpec == RepeatInit /\ [][RepeatNext]_vars

\* a caller runs the first merklize and then, on the same leaves and with
\* another allocation for intermediates, the second one
CallAlt ==
  /\ host = "returned"
  /\ alt.host = "idle"
  /\ alt' = [AltIdle(o_size) EXCEPT !.host = "called"]
  /\ UNCHANGED <<late, host, leaf_cnt, i_size, o_size, capacity, leaves,
                 intermediates, orch, root, worker, ipipe, opipe, log, test,
                 call>>

VariantInit ==
  \E n \in {0, 1} \cup {2 ^ e : e \in 1..MaxLog} :
    \E cap \in 0..(IF n = 2 ^ MaxLog THEN 0 ELSE 1) : Called(n, cap)

VariantNext ==
  \/ Next
  \/ CallAlt
  \/ AltNext

VariantSpec == VariantInit /\ [][VariantNext]_vars

----------------------------------------------------------------------------
(* the functions of sha256.hpp called on their own *)

\* bound of the arguments: blocks Block(a, b) for a, b in 0 .. MaxBlock
MaxBlock == 5

\* 16 message words
Block(a, b) ==
  [t \in 1..16 |-> W((a * 4099 * t + b * 257 + a * b) % 65536,
                     (b * 773 * t + a * 12347 + t * t) % 65536)] \o <<>>

\* what an array of n words holds before the function writes to it: zeros,
\* or the words a previous call has left there
Prior(n, p) == [t \in 1..n |-> IF p = 0 THEN 0 ELSE W(65535 - t, 4660 + p * t)] \o <<>>

\* no kernel of merklize and no test kernel exists
NoKernels ==
  /\ host = "idle"
  /\ leaf_cnt = 0
  /\ i_size = 0
  /\ o_size = 0
  /\ capacity = 0
  /\ leaves = <<>>
  /\ intermediates = <<>>
  /\ orch = [k \in Orchs |->
       [pc |-> "idle", stage |-> 0, i |-> 0, j |-> 0, msg |-> Zeros(16),
        padded |-> Zeros(32), digest |-> Zeros(8)]]
  /\ root = [pc |-> "idle", msg |-> Zeros(16), padded |-> Zeros(32),
             hash_state |-> Zeros(8)]
  /\ worker = [w \in Workers |->
       [pc |-> "idle", j |-> 0, padded |-> Zeros(32), hash_state |-> Zeros(8)]]
  /\ ipipe = [w \in Workers |-> <<>>]
  /\ opipe = [w \in Workers |-> <<>>]
  /\ log = [k \in 0..2 |-> <<>>]
  /\ test = TestIdle
  /\ alt = AltNone
  /\ late = NoLate

\* prepare_message_schedule(in, out) runs to its end
PrepareMessageSchedule ==
  /\ call.fn = "prepare_message_schedule"
  /\ call.pc = "called"
  /\ call' = [call EXCEPT !.out = prepare_message_schedule(call.in, call.out),
                          !.pc = "returned"]
  /\ UNCHANGED <<late, alt, host, leaf_cnt, i_size, o_size, capacity, leaves,
                 intermediates, orch, root, worker, ipipe, opipe, log, test>>

ScheduleInit ==
  /\ NoKernels
  /\ \E a \in 0..MaxBlock : \E b \in 0..MaxBlock : \E p \in 0..1 :
       call = [fn |-> "prepare_message_schedule", pc |-> "called",
               in |-> Block(a, b), out |-> Prior(64, p)]

ScheduleSpec == ScheduleInit /\ [][PrepareMessageSchedule]_vars

\* bound of the calls of hash made one after the other on the same arrays
MaxCalls == 2

\* the 32 words handed to hash: a padded block, or any 32 words
Message(a, b) ==
  IF b = 0 THEN pad_input_message(Block(a, 0)) ELSE Block(a, b) \o Block(b, a)

\* sha256::hash(hash_state, msg_schld, padded) runs to its end
Hash ==
  /\ call.fn = "hash"
  /\ call.pc = "called"
  /\ \E r \in {hash(call.hash_state, call.msg_schld, call.in)} :
       call' = [call EXCEPT !.hash_state = r.hash_state,
                            !.msg_schld = r.msg_schld,
                            !.pc = "returned"]
  /\ UNCHANGED <<late, alt, host, leaf_cnt, i_size, o_size, capacity, leaves,
                 intermediates, orch, root, worker, ipipe, opipe, log, test>>

\* the caller puts the next message in padded and calls hash again, with
\* hash_state and msg_schld as the previous call left them
HashAgain ==
  /\ call.fn = "hash"
  /\ call.pc = "returned"
  /\ call.n < MaxCalls
  /\ \E a \in 0..MaxBlock : \E b \in 0..1 :
       call' = [call EXCEPT !.in = Message(a, b), !.n = call.n + 1,
                            !.pc = "called"]
  /\ UNCHANGED <<late, alt, host, leaf_cnt, i_size, o_size, capacity, leaves,
                 intermediates, orch, root, worker, ipipe, opipe, log, test>>

HashInit ==
  /\ NoKernels
  /\ \E a \in 0..MaxBlock : \E b \in 0..1 : \E p \in 0..1 :
       call = [fn |-> "hash", pc |-> "called", n |-> 1, in |-> Message(a, b),
               hash_state |-> Prior(8, p), msg_schld |-> Prior(64, p)]

HashNext ==
  \/ Hash
  \/ HashAgain

HashSpec == HashInit /\ [][HashNext]_vars

\* bounds of the arguments of the byte order conversions: bytes ByteOf(s)
\* for s in 0 .. MaxByte and the two extreme bytes, words of two halves
\* HalfOf(s) for s in 0 .. MaxHalf and the two extreme halves
MaxByte == 3

MaxHalf == 5

ByteOf(s) == (s * 37 + 1) % 256

HalfOf(s) == (s * 9973 + 1) % 65536

Bytes == {ByteOf(s) : s \in 0..MaxByte} \cup {0, 255}

Halves == {HalfOf(s) : s \in 0..MaxHalf} \cup {0, 65535}

\* to_be_bytes(word, out) runs to its end
ToBeBytes ==
  /\ call.fn = "to_be_bytes"
  /\ call.pc = "called"
  /\ call' = [call EXCEPT !.bytes = to_be_bytes(call.word), !.pc = "returned"]
  /\ UNCHANGED <<late, alt, host, leaf_cnt, i_size, o_size, capacity, leaves,
                 intermediates, orch, root, worker, ipipe, opipe, log, test>>

\* from_be_bytes(in) returns
FromBeBytes ==
  /\ call.fn = "from_be_bytes"
  /\ call.pc = "called"
  /\ call' = [call EXCEPT !.word = from_be_bytes(call.bytes, 0),
                          !.pc = "returned"]
  /\ UNCHANGED <<late, alt, host, leaf_cnt, i_size, o_size, capacity, leaves,
                 intermediates, orch, root, worker, ipipe, opipe, log, test>>

\* the caller hands the result of the one conversion to the other one
ConvertBack ==
  /\ call.fn \in {"to_be_bytes", "from_be_bytes"}
  /\ call.pc = "returned"
  /\ call.n = 1
  /\ call' = [call EXCEPT !.fn = IF call.fn = "to_be_bytes"
                                 THEN "from_be_bytes" ELSE "to_be_bytes",
                          !.pc = "called", !.n = 2]
  /\ UNCHANGED <<late, alt, host, leaf_cnt, i_size, o_size, capacity, leaves,
                 intermediates, orch, root, worker, ipipe, opipe, log, test>>

\* a conversion is called on a word, or on four bytes
BytesInit ==
  /\ NoKernels
  /\ \/ \E hi \in Halves : \E lo \in Halves :
          call = [fn |-> "to_be_bytes", pc |-> "called", n |-> 1,
                  first |-> <<W(hi, lo)>>, word |-> W(hi, lo),
                  bytes |-> Zeros(4)]
     \/ \E b0 \in Bytes : \E b1 \in Bytes : \E b2 \in Bytes : \E b3 \in Bytes :
          call = [fn |-> "from_be_bytes", pc |-> "called", n |-> 1,
                  first |-> <<b0, b1, b2, b3>>, word |-> 0,
                  bytes |-> <<b0, b1, b2, b3>>]

BytesNext ==
  \/ ToBeBytes
  \/ FromBeBytes
  \/ ConvertBack

BytesSpec == BytesInit /\ [][BytesNext]_vars

----------------------------------------------------------------------------
(* properties *)

\* node k of the tree: words [8k, 8k+8) of mem
Node(mem, k) == SubSeq(mem, 8 * k + 1, 8 * k + 8)

\* the 2-to-1 hash of 16 words: padded, then hashed
Hash2to1(msg) == hash(Zeros(8), Zeros(64), pad_input_message(msg)).hash_state

\* the logged stores to intermediates, as indices into AllLog
Stores == {e \in DOMAIN AllLog : AllLog[e].op = "wi"}

\* nodes whose 8 words have all been stored
WrittenNodes == {n \in 1..(leaf_cnt - 1) : Burst(8 * n, 8) \subseteq Written}

\* nodes at depth d of the heap-ordered tree (the root is at depth 0)
LevelNodes(d) == (2 ^ d)..(2 ^ (d + 1) - 1)

\* the nodes at depth d >= 1 below node 2 (k = 0) and below node 3 (k = 1)
HalfLevel(k, d) ==
  IF k = 0 THEN (2 ^ d)..(2 ^ d + 2 ^ (d - 1) - 1)
  ELSE (2 ^ d + 2 ^ (d - 1))..(2 ^ (d + 1) - 1)

\* orchestrator k is about to read, or is sending, a message made of two
\* intermediate nodes
Dispatching(k) ==
  orch[k].stage >= 1 /\ orch[k].pc \in {"load0", "send0", "load1", "send1"}

\* the first of the two nodes in that message
DispatchedNode(k) ==
  (IF orch[k].pc \in {"load0", "send0"} THEN i_offset_0(k, orch[k])
   ELSE i_offset_1(k, orch[k])) \div 8

\* C1: when merklize has returned for leaf_cnt >= 4, every node k in
\* 1..leaf_cnt-1 is the 2-to-1 hash of its two children: of words
\* [16k, 16k+16) of intermediates for k < leaf_cnt/2, of words
\* [16(k - leaf_cnt/2), +16) of leaves otherwise; the root is node 1.
C1_HeapOrder ==
  (host = "returned" /\ leaf_cnt >= 4) =>
    \A k \in 1..(leaf_cnt - 1) :
      Node(intermediates, k) =
        Hash2to1(IF k < leaf_cnt \div 2
                 THEN SubSeq(intermediates, 16 * k + 1, 16 * k + 16)
                 ELSE SubSeq(leaves, 16 * (k - leaf_cnt \div 2) + 1,
                             16 * (k - leaf_cnt \div 2) + 16))

C1_Witness ==
  /\ host = "returned"
  /\ leaf_cnt = 2 ^ MaxLog
  /\ Node(intermediates, 1) = Hash2to1(SubSeq(intermediates, 17, 32))
  /\ WrittenNodes = 1..(leaf_cnt - 1)

\* C2: every read of intermediates as hash input (in a round, or of the
\* root input at words [16, 32)) reads only words that were stored before.
C2_ReadAfterWrite ==
  \A k \in 0..2 : \A e \in DOMAIN log[k] :
    log[k][e].op = "ri" => log[k][e].ok

\* C3 as claimed: while an orchestrator sends a message made of nodes of
\* one level, all nodes of that level, in both halves of the tree, are
\* written.
C3_FullLevelBarrier ==
  \A k \in Orchs :
    Dispatching(k) =>
      LevelNodes(bin_log(DispatchedNode(k))) \subseteq WrittenNodes

\* C3 amended: while orchestrator k sends a message made of nodes of one
\* level, these nodes are in its own half of the tree and all nodes of that
\* level in its own half are written; the root kernel runs only when both
\* orchestrators are done.
C3_HalfLevelBarrier ==
  /\ \A k \in Orchs :
       Dispatching(k) =>
         LET d == bin_log(DispatchedNode(k))
         IN  /\ {DispatchedNode(k), DispatchedNode(k) + 1} \subseteq HalfLevel(k, d)
             /\ HalfLevel(k, d) \subseteq WrittenNodes
  /\ root.pc \in {"hash", "store", "done"} =>
       orch[0].pc = "done" /\ orch[1].pc = "done"

\* orchestrator 0 sends a message of the level above the leaf pairs while
\* orchestrator 1 has not written all of its nodes of the level below
C3_Witness ==
  /\ Dispatching(0)
  /\ orch[1].stage = 0
  /\ ~ (HalfLevel(1, bin_log(DispatchedNode(0))) \subseteq WrittenNodes)

\* C4: once the root kernel has read words [16, 32), orchestrators 0 and 1
\* access memory no more, and once it has stored the root to words [8, 16)
\* nothing is stored any more.
C4_RootLast ==
  [][/\ Len(log[2]) > 0 => (log[0]' = log[0] /\ log[1]' = log[1])
     /\ root.pc = "done" => (log' = log /\ intermediates' = intermediates)]_vars

C4_Witness ==
  /\ root.pc = "done"
  /\ leaf_cnt = 2 ^ MaxLog
  /\ Len(log[0]) > 0 /\ Len(log[1]) > 0
  /\ AllLog[Len(AllLog)] = [op |-> "wi", at |-> 8, ok |-> TRUE]

\* C5: whatever the capacity of the pipes (0 included), under fair
\* scheduling orchestrators 0, 1 and 2 finish and evt2.wait() returns.
C5_Returns ==
  <>(/\ host = "returned"
     /\ orch[0].pc = "done" /\ orch[1].pc = "done" /\ root.pc = "done")

C5_Witness ==
  /\ host = "returned"
  /\ capacity = 0
  /\ leaf_cnt = 2 ^ MaxLog
  /\ \A w \in Workers : worker[w].pc = "read" /\ worker[w].j = 0

\* C6: no word of intermediates is stored to twice.
C6_WriteOnce ==
  \A e1, e2 \in Stores :
    e1 # e2 => Burst(AllLog[e1].at, 8) \cap Burst(AllLog[e2].at, 8) = {}

C6_Witness ==
  /\ host = "returned"
  /\ leaf_cnt = 2 ^ MaxLog
  /\ Cardinality(Stores) = leaf_cnt - 1

\* number of stores so far to nodes at depth d
StoresAt(d) ==
  Cardinality({e \in Stores : AllLog[e].at \div 8 \in LevelNodes(d)})

\* C7: when merklize has returned, leaf_cnt - 1 nodes were written, in
\* log2(leaf_cnt) levels of which each holds half the nodes of the one
\* below it.
C7_NodeCount ==
  host = "returned" =>
    LET levels == bin_log(leaf_cnt)
    IN  /\ Cardinality(Stores) = leaf_cnt - 1
        /\ \A e \in Stores : AllLog[e].at \div 8 \in 1..(2 ^ levels - 1)
        /\ \A d \in 0..(levels - 1) : StoresAt(d) > 0
        /\ \A d \in 0..(levels - 2) : 2 * StoresAt(d) = StoresAt(d + 1)

C7_Witness ==
  /\ host = "returned"
  /\ leaf_cnt = 2 ^ MaxLog
  /\ StoresAt(MaxLog - 1) = leaf_cnt \div 2
  /\ StoresAt(0) = 1

C9_TwoLeafRoot ==
  (host = "returned" /\ leaf_cnt = 2) =>
    /\ \E e \in DOMAIN AllLog : AllLog[e].op = "rl" /\ AllLog[e].at = 0
    /\ Node(intermediates, 1) = Hash2to1(SubSeq(leaves, 1, 16))

\* C10: for leaf_cnt = 2 no kernel reads a word of intermediates that was
\* not stored before or that lies outside the allocation.
C10_NoMissingLevel ==
  leaf_cnt = 2 =>
    \A e \in DOMAIN AllLog :
      AllLog[e].op = "ri" =>
        /\ AllLog[e].at + 16 <= IntermediatesLen
        /\ Burst(AllLog[e].at, 16) \subseteq Written

\* merklize has stopped at an assert, or has not started: no kernel was
\* submitted and no word of either buffer was read or written
Untouched ==
  /\ host \in {"called", "aborted"}
  /\ AllLog = <<>>
  /\ intermediates = Zeros(o_size \div 4)
  /\ \A k \in Orchs : orch[k].pc = "idle"
  /\ \A w \in Workers : worker[w].pc = "idle"
  /\ root.pc = "idle"

\* C11: when leaf_cnt is not a power of two, merklize stops at its
\* precondition check: no kernel is submitted and neither buffer is touched.
C11_RejectsNonPowerOfTwo ==
  (\A e \in 0..30 : leaf_cnt # 2 ^ e) => Untouched

\* C12: when leaf_cnt is 0 or 1, merklize stops at its precondition check:
\* no kernel is submitted and neither buffer is touched.
C12_RejectsBelowTwo ==
  leaf_cnt < 2 => Untouched

\* C13: when leaf_cnt is a power of two >= 2 and a buffer is smaller than
\* the 32 * leaf_cnt bytes the kernels address, merklize stops at its
\* precondition check: no kernel is submitted.
C13_RejectsSizeMismatch ==
  (/\ leaf_cnt >= 2 /\ \E e \in 1..30 : leaf_cnt = 2 ^ e
   /\ (i_size < 32 * leaf_cnt \/ o_size < 32 * leaf_cnt)) => Untouched

\* the contents of intermediates after the construction on LeafWords(n) in
\* which a read of a word that was never stored returns 0
OneRun(n) ==
  IF n >= 4 THEN KnownTrees[bin_log(n)]
  ELSE Zeros(8) \o Hash2to1(Zeros(16)) \o Zeros(8 * n - 16)

\* C14: for given leaves and leaf_cnt, every run of the construction,
\* whatever the interleaving of the kernels, ends with the same contents of
\* intermediates.
C14_Deterministic ==
  (host = "returned" /\ leaves = LeafWords(leaf_cnt)) =>
    intermediates = OneRun(leaf_cnt)

\* the leaf in which leaves differs from LeafWords(leaf_cnt)
ChangedLeaf ==
  CHOOSE m \in 0..(leaf_cnt - 1) :
    SubSeq(leaves, 8 * m + 1, 8 * m + 8)
      # SubSeq(LeafWords(leaf_cnt), 8 * m + 1, 8 * m + 8)

\* the nodes on the path from leaf m of n to the root
Path(n, m) == {k \in 1..(n - 1) : \E d \in 1..bin_log(n) : k = (n + m) \div (2 ^ d)}

\* C15: after the construction on leaves that differ from LeafWords in one
\* leaf, every node that is not on the path from that leaf to the root has
\* the value it has after the construction on LeafWords.
C15_UnchangedOffPath ==
  host = "returned" =>
    \A k \in (1..(leaf_cnt - 1)) \ Path(leaf_cnt, ChangedLeaf) :
      Node(intermediates, k) = Node(OneRun(leaf_cnt), k)

C15_Witness ==
  /\ host = "returned"
  /\ leaf_cnt = 2 ^ (MaxLog - 1)
  /\ ChangedLeaf = leaf_cnt - 1
  /\ (1..(leaf_cnt - 1)) \ Path(leaf_cnt, ChangedLeaf) # {}
  /\ Node(intermediates, leaf_cnt \div 2) # Zeros(8)

\* C16: after the construction on leaves that differ from LeafWords in one
\* leaf, the root and every node on the path from that leaf to the root
\* differ from their values after the construction on LeafWords.
C16_ChangedOnPath ==
  host = "returned" =>
    \A k \in Path(leaf_cnt, ChangedLeaf) :
      Node(intermediates, k) # Node(OneRun(leaf_cnt), k)

----------------------------------------------------------------------------
(* the hash function against SHA-256 *)

\* SHA-256 of the 64 bytes TestBytes(a, b), at [a + 1][b + 1], as FIPS 180-4
\* defines it
Sha256Of ==
  <<
    <<
      <<245, 165, 253, 66, 209, 106, 32, 48, 39, 152, 239, 110, 211,
        9, 151, 155, 67, 0, 61, 35, 32, 217, 240, 232, 234, 152, 49,
        169, 39, 89, 251, 75>>,
      <<124, 137, 117, 225, 230, 10, 92, 131, 55, 242, 142, 223, 140,
        51, 195, 177, 128, 54, 11, 114, 121, 100, 74, 155, 193, 175,
        60, 81, 230, 34, 11, 245>>,
      <<248, 59, 51, 43, 228, 230, 165, 164, 177, 197, 106, 175, 109,
        181, 38, 87, 218, 73, 94, 20, 152, 112, 5, 125, 133, 144, 171,
        157, 122, 97, 103, 173>>,
      <<106, 165, 108, 75, 205, 32, 137, 17, 121, 42, 210, 76, 118,
        129, 254, 251, 147, 190, 213, 25, 3, 175, 197, 72, 96, 201,
        189, 55, 228, 30, 90, 49>>,
      <<203, 76, 223, 19, 81, 199, 183, 129, 46, 82, 184, 115, 100,
        10, 178, 11, 215, 72, 167, 20, 47, 254, 193, 68, 177, 132, 57,
        188, 139, 131, 57, 36>>,
      <<177, 188, 204, 241, 94, 208, 160, 189, 99, 99, 90, 230, 134,
        175, 159, 117, 229, 34, 171, 5, 124, 146, 142, 57, 246, 94,
        232, 48, 72, 215, 44, 117>>,
      <<19, 82, 40, 111, 125, 221, 246, 94, 252, 229, 44, 120, 148,
        118, 199, 233, 23, 236, 221, 152, 209, 193, 202, 154, 178,
        221, 225, 228, 150, 76, 174, 254>> >>,
    <<
      <<253, 234, 185, 172, 243, 113, 3, 98, 189, 38, 88, 205, 201,
        162, 158, 143, 156, 117, 127, 207, 152, 17, 96, 58, 140, 68,
        124, 209, 217, 21, 17, 8>>,
      <<32, 167, 236, 132, 104, 79, 127, 225, 36, 203, 55, 39, 208,
        73, 115, 74, 176, 183, 218, 47, 82, 252, 175, 188, 239, 152,
        158, 207, 217, 30, 135, 11>>,
      <<135, 234, 195, 184, 85, 45, 242, 197, 202, 35, 97, 181, 18,
        156, 86, 217, 93, 218, 176, 64, 92, 100, 215, 198, 97, 228,
        240, 15, 169, 79, 198, 202>>,
      <<121, 84, 48, 225, 87, 150, 146, 58, 85, 127, 157, 161, 217,
        128, 236, 157, 179, 65, 233, 172, 214, 218, 104, 46, 28, 216,
        99, 3, 206, 107, 11, 8>>,
      <<225, 198, 60, 180, 179, 209, 101, 220, 65, 59, 61, 86, 191,
        148, 21, 102, 235, 226, 160, 87, 60, 39, 220, 148, 16, 175,
        219, 242, 88, 85, 113, 197>>,
      <<190, 84, 174, 19, 101, 26, 92, 243, 194, 80, 235, 71, 180,
        192, 62, 121, 155, 167, 55, 75, 32, 15, 20, 216, 100, 54, 90,
        99, 137, 99, 218, 167>>,
      <<227, 8, 117, 8, 189, 195, 113, 14, 65, 25, 66, 173, 26, 245,
        211, 139, 175, 17, 103, 89, 23, 168, 66, 237, 250, 72, 148,
        132, 126, 135, 241, 109>> >>,
    <<
      <<140, 142, 97, 20, 123, 39, 212, 66, 175, 159, 80, 198, 236,
        156, 232, 241, 250, 138, 109, 48, 70, 124, 228, 85, 94, 29,
        144, 71, 95, 131, 150, 249>>,
      <<109, 173, 71, 192, 60, 180, 37, 205, 101, 6, 11, 241, 214, 33,
        11, 38, 207, 237, 238, 174, 144, 99, 195, 55, 200, 168, 62,
        212, 134, 71, 160, 202>>,
      <<103, 94, 110, 70, 234, 246, 122, 138, 88, 254, 202, 199, 156,
        99, 237, 202, 80, 222, 9, 7, 19, 22, 253, 214, 201, 168, 202,
        88, 103, 213, 116, 110>>,
      <<18, 157, 179, 228, 52, 163, 82, 239, 228, 26, 200, 108, 89,
        19, 167, 225, 30, 20, 235, 149, 179, 103, 182, 66, 239, 13,
        211, 70, 152, 56, 227, 219>>,
      <<49, 173, 163, 113, 51, 16, 174, 183, 1, 196, 63, 8, 39, 110,
        222, 50, 17, 216, 6, 189, 36, 104, 60, 103, 135, 250, 43, 227,
        82, 24, 200, 118>>,
      <<243, 81, 88, 30, 249, 55, 61, 208, 42, 16, 9, 151, 217, 113,
        98, 208, 197, 170, 153, 142, 119, 77, 67, 133, 17, 93, 217,
        27, 63, 141, 123, 67>>,
      <<43, 205, 117, 11, 215, 32, 94, 221, 157, 154, 36, 14, 201,
        127, 191, 206, 41, 234, 90, 60, 45, 74, 225, 7, 91, 157, 31,
        167, 9, 220, 35, 56>> >>,
    <<
      <<26, 14, 14, 207, 132, 56, 41, 97, 168, 90, 168, 98, 158, 152,
        174, 252, 254, 255, 220, 240, 253, 116, 166, 221, 73, 213, 93,
        151, 6, 71, 122, 178>>,
      <<206, 124, 207, 213, 155, 140, 61, 92, 168, 187, 22, 211, 89,
        32, 233, 55, 58, 87, 66, 224, 1, 124, 162, 226, 236, 234, 252,
        68, 50, 76, 198, 87>>,
      <<166, 36, 113, 209, 243, 239, 65, 42, 67, 214, 21, 146, 153,
        85, 104, 198, 147, 195, 129, 60, 30, 36, 207, 161, 180, 202,
        228, 189, 203, 19, 70, 237>>,
      <<90, 214, 139, 167, 134, 63, 246, 49, 211, 174, 148, 4, 229,
        148, 78, 175, 86, 183, 114, 167, 190, 64, 89, 110, 67, 124,
        144, 169, 196, 63, 166, 210>>,
      <<214, 55, 189, 108, 79, 41, 250, 182, 234, 77, 155, 7, 52, 22,
        189, 41, 138, 229, 154, 152, 168, 174, 83, 213, 10, 180, 109,
        149, 111, 90, 10, 152>>,
      <<86, 199, 189, 113, 106, 254, 7, 189, 3, 19, 131, 6, 15, 0, 88,
        125, 250, 117, 80, 57, 10, 59, 90, 158, 76, 179, 145, 6, 122,
        170, 2, 252>>,
      <<203, 51, 132, 214, 187, 3, 214, 200, 89, 193, 122, 38, 185,
        212, 189, 122, 223, 251, 95, 1, 152, 158, 29, 115, 21, 251,
        142, 20, 103, 161, 67, 234>> >> >>

\* C17: pad_input_message followed by hash leaves the SHA-256 digest of the
\* 64 input bytes, read as 16 big-endian words, in hash_state: for every test
\* input the 32 digest bytes are those of SHA-256, and for the input whose
\* byte i is i they are fd ea b9 ac .. d9 15 11 08, so that the comparison
\* of the kernel succeeds
C17_Sha256 ==
  test.pc \in {"compare", "done"} =>
    /\ \A a \in 0..(TestMul + 1) : \A b \in 0..(TestAdd + 1) :
         test.in = TestBytes(a, b) => test.digest = Sha256Of[a + 1][b + 1]
    /\ test.in = [i \in 1..64 |-> i - 1] =>
         /\ test.digest = expected
         /\ test.pc = "done" => test.res = TRUE
         /\ host # "aborted"

C17_Witness ==
  /\ host = "passed"
  /\ test.in = [i \in 1..64 |-> i - 1]
  /\ test.digest = expected

\* C18: pad_input_message copies the 16 input words to words 0 .. 15 of the
\* output, sets word 16 to 0x80000000, words 17 .. 30 to 0 and word 31 to 512,
\* and leaves the input as it was
C18_Padding ==
  test.pc \in {"hash", "bytes", "compare", "done"} =>
    /\ Len(test.padded) = 32
    /\ \A i \in 0..15 : At(test.padded, i) = At(test.in_words, i)
    /\ At(test.padded, 16) = W(32768, 0)
    /\ \A i \in 17..30 : At(test.padded, i) = 0
    /\ At(test.padded, 31) = 512
    /\ test.in_words = [i \in 1..16 |-> from_be_bytes(test.in, 4 * (i - 1))]

C18_Witness ==
  /\ test.pc = "hash"
  /\ \E i \in 0..15 : At(test.in_words, i) # 0

----------------------------------------------------------------------------
(* the workers *)

\* the word worker w takes from its input pipe in this step, as a set
WordRead(w) ==
  IF capacity = 0
  THEN {At(orch[w \div 2].padded, orch[w \div 2].j)}
  ELSE {Head(ipipe[w])}

\* worker w's input pipe loses no word in this step
NotRead(w) ==
  \/ ipipe'[w] = ipipe[w]
  \/ \E x \in {At(orch[w \div 2].padded, orch[w \div 2].j)} :
       ipipe'[w] = Append(ipipe[w], x)

\* the word worker w writes in this step reaches the reader of its output
\* pipe as the next digest word
WordWritten(w) ==
  IF capacity = 0
  THEN At(orch'[w \div 2].digest, worker[w].j) = At(worker[w].hash_state, worker[w].j)
  ELSE opipe'[w] = Append(opipe[w], At(worker[w].hash_state, worker[w].j))

\* C19: a worker handles one message at a time.  It takes word j of the
\* message as the j-th read and starts hashing only after the 32nd; while it
\* hashes and writes it reads nothing and its message stays as read; the
\* digest it writes is the hash of those 32 words, word j as the j-th write,
\* and only after the 8th write it reads again
C19_OneAtATime ==
  [][\A w \in Workers :
       worker'[w] # worker[w] =>
         /\ worker[w].pc = "read" =>
              /\ \E x \in WordRead(w) :
                   worker'[w].padded = [worker[w].padded EXCEPT ![worker[w].j + 1] = x]
              /\ worker'[w].hash_state = worker[w].hash_state
              /\ opipe'[w] = opipe[w]
              /\ IF worker[w].j = 31
                 THEN worker'[w].pc = "hash" /\ worker'[w].j = 0
                 ELSE worker'[w].pc = "read" /\ worker'[w].j = worker[w].j + 1
         /\ worker[w].pc = "hash" =>
              /\ worker'[w].padded = worker[w].padded
              /\ <<worker[w].padded, worker'[w].hash_state>> \in KnownDigests
              /\ worker'[w].pc = "write" /\ worker'[w].j = 0
              /\ NotRead(w) /\ opipe'[w] = opipe[w]
         /\ worker[w].pc = "write" =>
              /\ worker'[w].padded = worker[w].padded
              /\ worker'[w].hash_state = worker[w].hash_state
              /\ <<worker[w].padded, worker[w].hash_state>> \in KnownDigests
              /\ WordWritten(w)
              /\ NotRead(w)
              /\ IF worker[w].j = 7
                 THEN worker'[w].pc = "read" /\ worker'[w].j = 0
                 ELSE worker'[w].pc = "write" /\ worker'[w].j = worker[w].j + 1
         /\ worker[w].pc = "idle" =>
              /\ worker'[w].pc = "read" /\ worker'[w].j = 0
              /\ ipipe[w] = <<>> /\ opipe[w] = <<>>]_vars

\* a worker that has written a whole digest is reading its second message
C19_Witness ==
  \E w \in Workers :
    /\ worker[w].pc = "read"
    /\ worker[w].j = 20
    /\ worker[w].hash_state # Zeros(8)

\* worker w is outside its loop: it was never launched or it has returned
Stopped(w) == worker[w].pc \notin {"read", "hash", "write"}

\* C20: once the construction is complete, so that no orchestrator sends
\* any more, every worker eventually stops instead of staying blocked in the
\* read of its input pipe
C20_WorkersStop ==
  (host = "returned") ~> (\A w \in Workers : Stopped(w))

----------------------------------------------------------------------------
(* after the call *)

\* C21: once merklize has returned no kernel stores to intermediates or
\* accesses global memory at all: the orchestrators and the root kernel are
\* complete, and the workers, which run on, have no access to the buffer
C21_NoWriteAfterReturn ==
  [][host = "returned" =>
       /\ intermediates' = intermediates
       /\ log' = log
       /\ orch' = orch /\ root' = root]_vars

\* merklize has returned from a construction of the largest tree, every
\* node stored, with the four workers still in their loops
C21_Witness ==
  /\ host = "returned"
  /\ leaf_cnt = 2 ^ MaxLog
  /\ WrittenNodes = 1..(leaf_cnt - 1)
  /\ \A w \in Workers : worker[w].pc = "read"

----------------------------------------------------------------------------
(* result placement *)

\* the pair orchestrator k is storing the digest of: 0 for the first of the
\* iteration, 1 for the second
StoredPair(k) == IF orch[k].pc = "store0" THEN orch[k].i ELSE orch[k].i + 1

\* the 16 words at src of the buffer the stage of orchestrator k reads
SourceWords(k, src) ==
  IF orch[k].stage = 0
  THEN SubSeq(leaves, src + 1, src + 16)
  ELSE SubSeq(intermediates, src + 1, src + 16)

\* C22: when an orchestrator stores a digest, the 8 words go to
\* o_offset + 8 * i and are the hash of the 16 words at i_offset + 16 * i,
\* the pair of the same iteration sent on the pipe the digest came from; no
\* other word of intermediates changes
C22_Placement ==
  [][\A k \in Orchs :
       (orch[k].pc \in {"store0", "store1"} /\ orch'[k] # orch[k]) =>
         LET i == StoredPair(k)
             src == i_offset(k, orch[k]) + 16 * i
             dst == o_offset(k, orch[k]) + 8 * i
         IN  /\ <<pad_input_message(SourceWords(k, src)),
                  SubSeq(intermediates', dst + 1, dst + 8)>> \in KnownDigests
             /\ \A x \in 1..Len(intermediates) :
                  x - 1 \notin Burst(dst, 8) => intermediates'[x] = intermediates[x]
             /\ Len(intermediates') = Len(intermediates)]_vars

\* an orchestrator is about to store the second digest of an iteration,
\* which differs from the first one it stored
C22_Witness ==
  \E k \in Orchs :
    /\ orch[k].pc = "store1"
    /\ orch[k].digest # Zeros(8)
    /\ orch[k].digest # Node(intermediates, (o_offset_0(k, orch[k])) \div 8)
    /\ Node(intermediates, (o_offset_0(k, orch[k])) \div 8) # Zeros(8)

----------------------------------------------------------------------------
(* the message schedule, bit by bit *)

\* bit i of word x, bit 0 the least significant
Bit(x, i) ==
  IF i < 16 THEN (Lo(x) \div (2 ^ i)) % 2 ELSE (Hi(x) \div (2 ^ (i - 16))) % 2

\* the word whose bit i is b[i]
RECURSIVE BitSum(_, _, _)
BitSum(b, lo, hi) ==
  IF lo > hi THEN 0 ELSE b[hi] + 2 * BitSum(b, lo, hi - 1)

FromBits(b) ==
  W(BitSum([i \in 0..15 |-> b[31 - i]], 0, 15),
    BitSum([i \in 0..15 |-> b[15 - i]], 0, 15))

RotrBit(n, x, i) == Bit(x, (i + n) % 32)

ShrBit(n, x, i) == IF i + n < 32 THEN Bit(x, i + n) ELSE 0

\* sigma0(x) = rotr7(x) xor rotr18(x) xor (x >> 3)
Sigma0Bits(x) ==
  FromBits([i \in 0..31 |->
              (RotrBit(7, x, i) + RotrBit(18, x, i) + ShrBit(3, x, i)) % 2])

\* sigma1(x) = rotr17(x) xor rotr19(x) xor (x >> 10)
Sigma1Bits(x) ==
  FromBits([i \in 0..31 |->
              (RotrBit(17, x, i) + RotrBit(19, x, i) + ShrBit(10, x, i)) % 2])

\* (a + b + c + d) mod 2^32
Sum4(a, b, c, d) ==
  LET lo == Lo(a) + Lo(b) + Lo(c) + Lo(d)
      hi == Hi(a) + Hi(b) + Hi(c) + Hi(d) + (lo \div 65536)
  IN  W(hi % 65536, lo % 65536)

\* W[t] from w = W[0] .. W[t-1]
NextWord(w) ==
  Sum4(Sigma1Bits(w[Len(w) - 1]), w[Len(w) - 6],
       Sigma0Bits(w[Len(w) - 14]), w[Len(w) - 15])

\* W[0] .. W[n-1] from w = W[0] .. W[t-1], t < n (the first half of the
\* missing words is evaluated before the second half starts)
RECURSIVE ScheduleUpTo(_, _)
ScheduleUpTo(w, n) ==
  IF n = Len(w) + 1 THEN Append(w, NextWord(w))
  ELSE Only({ScheduleUpTo(half, n) :
             half \in {ScheduleUpTo(w, (Len(w) + n) \div 2)}})

\* C23: prepare_message_schedule leaves the 64 words W with W[t] = block[t]
\* for t < 16 and W[t] = sigma1(W[t-2]) + W[t-7] + sigma0(W[t-15]) + W[t-16]
\* mod 2^32 for 16 <= t < 64, whatever the array held before
C23_Schedule ==
  (call.fn = "prepare_message_schedule" /\ call.pc = "returned") =>
    /\ Len(call.out) = 64
    /\ SubSeq(call.out, 1, 16) = call.in
    /\ call.out = ScheduleUpTo(call.in, 64)

C23_Witness ==
  /\ call.fn = "prepare_message_schedule"
  /\ call.pc = "returned"
  /\ call.in = Block(MaxBlock, 1)
  /\ At(call.out, 63) # 0

----------------------------------------------------------------------------
(* hash, call after call *)

\* C24: whatever hash_state and msg_schld hold when hash is called, zeros,
\* other words, or what the call for an earlier message left, the digest is
\* the one reached from the eight IV words by block 0 and then block 1 of the
\* message, and the message is as it was
C24_Stateless ==
  (call.fn = "hash" /\ call.pc = "returned") =>
    /\ call.hash_state =
         hash_block(hash_block([hash_state |-> IV, msg_schld |-> Zeros(64)],
                               call.in, 0),
                    call.in, 1).hash_state
    /\ Len(call.in) = 32

\* a second call on the same arrays has returned
C24_Witness ==
  /\ call.fn = "hash"
  /\ call.pc = "returned"
  /\ call.n = 2
  /\ call.in = Message(1, 1)

----------------------------------------------------------------------------
(* the two variants of merklize *)

\* C25: for a power-of-two leaf_cnt >= 4 and the same leaves, the
\* one-orchestrator two-worker merklize stores to the same words as the
\* three-orchestrator four-worker merklize, and the same values: every node,
\* the root at words [8, 16) included
C25_VariantsAgree ==
  (alt.host = "returned" /\ leaf_cnt >= 4) =>
    /\ host = "returned"
    /\ AltWritten = Written
    /\ Burst(8, 8 * (leaf_cnt - 1)) = Written
    /\ alt.intermediates = intermediates

C25_Witness ==
  /\ alt.host = "returned"
  /\ host = "returned"
  /\ leaf_cnt = 2 ^ MaxLog
  /\ Node(alt.intermediates, 1) # Zeros(8)
  /\ Node(alt.intermediates, 1) = Node(intermediates, 1)

----------------------------------------------------------------------------
(* regions *)

\* the logged reads of buffer buf ("rl" leaves, "ri" intermediates) that
\* take word idx, as indices into AllLog
ReadsOf(buf, idx) ==
  {e \in DOMAIN AllLog : AllLog[e].op = buf /\ idx \in Burst(AllLog[e].at, 16)}

\* orchestrator k is inside an iteration of its loops
InLoop(k) ==
  orch[k].pc \in {"load0", "send0", "load1", "send1",
                  "recv0", "store0", "recv1", "store1"}

\* C26: the input region of every round of an orchestrator is the output
\* region of its previous stage: it starts where that one started and has
\* as many pairs as that one had digests, half of them again go out at half
\* the input offset; and when a construction with leaf_cnt >= 4 is complete
\* every word of leaves and every word of every node but the root has been
\* read as hash input exactly once, the root never
C26_RegionChaining ==
  /\ \A k \in Orchs :
       (InLoop(k) /\ orch[k].stage >= 1) =>
         LET o == orch[k]
             prev == [o EXCEPT !.stage = o.stage - 1]
         IN  /\ i_offset(k, o) = o_offset(k, prev)
             /\ 2 * itr_cnt(o) = itr_cnt(prev)
             /\ 2 * o_offset(k, o) = i_offset(k, o)
  /\ (host = "returned" /\ leaf_cnt >= 4) =>
       /\ \A idx \in 0..(8 * leaf_cnt - 1) :
            Cardinality(ReadsOf("rl", idx)) = 1
       /\ \A idx \in 16..(8 * leaf_cnt - 1) :
            Cardinality(ReadsOf("ri", idx)) = 1
       /\ \A idx \in 0..15 : ReadsOf("ri", idx) = {}
       /\ \A e \in DOMAIN AllLog :
            AllLog[e].op \in {"rl", "ri"} => AllLog[e].at + 16 <= 8 * leaf_cnt

\* the largest tree is complete: leaf_cnt / 2 pairs of leaves and
\* leaf_cnt / 2 - 1 pairs of nodes have been read
C26_Witness ==
  /\ host = "returned"
  /\ leaf_cnt = 2 ^ MaxLog
  /\ Cardinality({e \in DOMAIN AllLog : AllLog[e].op = "rl"}) = leaf_cnt \div 2
  /\ Cardinality({e \in DOMAIN AllLog : AllLog[e].op = "ri"}) = (leaf_cnt \div 2) - 1

----------------------------------------------------------------------------
(* the two-worker variant *)

\* everything of the second merklize has come to its end
AltAllDone ==
  /\ alt.host = "returned"
  /\ alt.orch.pc = "done"
  /\ \A w \in AltWorkers :
       /\ alt.worker[w].pc = "done"
       /\ alt.ipipe[w] = <<>>
       /\ alt.opipe[w] = <<>>

\* C27: in the two-worker variant, for a power-of-two leaf_cnt >= 4, the
\* orchestrator never sends more than leaf_cnt / 2 messages on input pipe 0
\* and leaf_cnt / 2 - 1 on input pipe 1, and under fair scheduling the run
\* comes to a state where it has sent exactly that many, worker 0 has made
\* its leaf_cnt / 2 rounds and worker 1 its leaf_cnt / 2 - 1, orchestrator
\* and workers have terminated and every pipe is empty
C27_TwoWorkerCounts ==
  /\ [](leaf_cnt >= 4 =>
          /\ alt.sent[0] <= leaf_cnt \div 2
          /\ alt.sent[1] <= (leaf_cnt \div 2) - 1
          /\ \A w \in AltWorkers : alt.worker[w].r <= alt.sent[w])
  /\ (leaf_cnt >= 4) ~>
       (/\ AltAllDone
        /\ alt.sent[0] = leaf_cnt \div 2
        /\ alt.sent[1] = (leaf_cnt \div 2) - 1
        /\ alt.worker[0].r = leaf_cnt \div 2
        /\ alt.worker[1].r = (leaf_cnt \div 2) - 1)

C27_Witness ==
  /\ AltAllDone
  /\ leaf_cnt = 2 ^ MaxLog
  /\ alt.sent[0] = leaf_cnt \div 2
  /\ alt.sent[1] = (leaf_cnt \div 2) - 1

----------------------------------------------------------------------------
(* repeated calls *)

\* the earlier and the later instance of kernelSHA256Hash<w> each hold a
\* part of a message
Split(w) ==
  /\ worker[w].pc = "read" /\ worker[w].j > 0
  /\ late.inst[w].pc = "read" /\ late.inst[w].j > 0

\* the second call waits and no kernel can take a step
Blocked ==
  /\ late.calls >= 2
  /\ host = "waiting"
  /\ ~ ENABLED RepeatNext

----------------------------------------------------------------------------
(* index ranges with the sizes of the benchmark *)

\* the words entry e of a log touches: 16 for a load of a message, 8 for a
\* store of a digest
Touched(e) == Burst(e.at, IF e.op = "wi" THEN 8 ELSE 16)

\* entry e stays inside 8 * leaf_cnt words
InRange(e) == \A idx \in Touched(e) : 0 <= idx /\ idx < 8 * leaf_cnt

\* C29: with leaves and intermediates of 8 * leaf_cnt words each and a
\* leaf_cnt the asserts let pass, every word either variant reads from leaves
\* and every word it reads or writes in intermediates has an index in
\* 0 .. 8 * leaf_cnt - 1
C29_InBounds ==
  (i_size = shl(leaf_cnt, 5) /\ o_size = shl(leaf_cnt, 5)) =>
    /\ \A x \in DOMAIN AllLog : InRange(AllLog[x])
    /\ \A x \in DOMAIN alt.log : InRange(alt.log[x])

----------------------------------------------------------------------------
(* the first slot of intermediates *)

\* the first words of buf, up to 8 of them
FirstSlot(buf) == SubSeq(buf, 1, IF Len(buf) < 8 THEN Len(buf) ELSE 8)

\* no store logged in lg touches a word of [0, 8)
NoStoreBelow8(lg) ==
  \A x \in DOMAIN lg : lg[x].op = "wi" => Burst(lg[x].at, 8) \cap 0..7 = {}

\* C30: no kernel of either merklize stores to words [0, 8) of intermediates,
\* whatever leaf_cnt is: once the buffer is handed to merklize no step
\* changes them, and no store is issued there
C30_FirstSlotKept ==
  [][/\ FirstSlot(intermediates') = FirstSlot(intermediates)
     /\ alt.host # "idle" =>
          FirstSlot(alt.intermediates') = FirstSlot(alt.intermediates)
     /\ NoStoreBelow8(AllLog')
     /\ NoStoreBelow8(alt.log')]_vars

C30_Witness ==
  /\ host = "returned"
  /\ alt.host = "returned"
  /\ leaf_cnt = 2 ^ MaxLog
  /\ Burst(8, 8) \subseteq Written
  /\ Burst(8, 8) \subseteq AltWritten
  /\ FirstSlot(intermediates) = Zeros(8)
  /\ FirstSlot(alt.intermediates) = Zeros(8)

----------------------------------------------------------------------------
(* orchestrators 0 and 1 side by side *)

\* the words orchestrator k has accessed with an operation of ops so far,
\* each with the buffer it is a word of
OrchWords(k, ops) ==
  UNION {{<<IF log[k][x].op = "rl" THEN "leaves" ELSE "intermediates", idx>> :
          idx \in Touched(log[k][x])} :
         x \in {y \in DOMAIN log[k] : log[k][y].op \in ops}}

\* C31: for a power of two leaf_cnt >= 4, no word that orchestrator 0 reads
\* or writes is a word orchestrator 1 writes, and no word that orchestrator 1
\* reads or writes is a word orchestrator 0 writes
C31_RaceFree ==
  leaf_cnt >= 4 =>
    /\ OrchWords(0, {"rl", "ri", "wi"}) \cap OrchWords(1, {"wi"}) = {}
    /\ OrchWords(1, {"rl", "ri", "wi"}) \cap OrchWords(0, {"wi"}) = {}

C31_Witness ==
  /\ leaf_cnt = 2 ^ MaxLog
  /\ orch[0].pc = "done" /\ orch[1].pc = "done"
  /\ OrchWords(0, {"ri"}) # {} /\ OrchWords(1, {"ri"}) # {}
  /\ OrchWords(0, {"wi"}) # {} /\ OrchWords(1, {"wi"}) # {}

----------------------------------------------------------------------------
(* messages in flight *)

\* words of a message written to ipipe w that worker w has not hashed yet
InWords(w) ==
  Len(ipipe[w]) + (IF worker[w].pc = "read" THEN worker[w].j ELSE 0)

\* words of a digest of worker w that its orchestrator has not read yet
OutWords(w) ==
  Len(opipe[w]) + (IF worker[w].pc = "hash" THEN 8
                   ELSE IF worker[w].pc = "write" THEN 8 - worker[w].j
                   ELSE 0)

\* C32: each worker has at most one message in flight: no word of a new
\* message is on the way to worker w while a digest word of the previous one
\* is still to be read, an input pipe never holds more than 32 words and an
\* output pipe never more than 8; and while an orchestrator is in the loop
\* that writes a message to a pipe, the words it has written are all that is
\* on the way to that worker and no digest of that worker is left to read
C32_OneInFlight ==
  /\ \A w \in Workers :
       /\ InWords(w) <= 32
       /\ OutWords(w) <= 8
       /\ Len(ipipe[w]) <= 32
       /\ Len(opipe[w]) <= 8
       /\ ~ (InWords(w) > 0 /\ OutWords(w) > 0)
  /\ \A k \in Orchs :
       orch[k].pc \in {"send0", "send1"} =>
         /\ InWords(orch_pipe(k)) = orch[k].j
         /\ OutWords(orch_pipe(k)) = 0

C32_Witness ==
  /\ leaf_cnt = 2 ^ MaxLog
  /\ capacity = 0
  /\ orch[0].pc = "recv0"
  /\ OutWords(0) = 3
  /\ OutWords(1) = 8
  /\ InWords(2) = 20

----------------------------------------------------------------------------
(* the round count of the second merklize *)

\* C33: for every leaf_cnt the asserts of the second merklize let pass,
\* bin_log(leaf_cnt >> 1) - 1 does not wrap below zero: the round count is
\* the difference taken in the integers, it is at most log2(leaf_cnt) - 2,
\* and the loop over the rounds is never one without an end in reach
C33_RoundsNoWrap ==
  alt.host \in {"waiting", "returned"} =>
    /\ alt_rounds_cnt = bin_log(shr(leaf_cnt, 1)) - 1
    /\ alt_rounds_cnt <= bin_log(leaf_cnt) - 2
    /\ alt.orch.stage <= bin_log(leaf_cnt) - 1
    /\ alt.orch.pc # "spin"

----------------------------------------------------------------------------
(* byte order conversions *)

\* the four bytes of word, the most significant one first
BytesOfWord(word) ==
  <<Hi(word) \div 256, Hi(word) % 256, Lo(word) \div 256, Lo(word) % 256>>

\* C34: from_be_bytes and to_be_bytes are inverse to each other, with byte
\* 0 the most significant: to_be_bytes leaves the four bytes of the word,
\* high byte first, from_be_bytes returns the word of those bytes, and the
\* one applied to the result of the other gives back the first argument
C34_Inverse ==
  (call.fn \in {"to_be_bytes", "from_be_bytes"} /\ call.pc = "returned") =>
    /\ call.bytes = BytesOfWord(call.word)
    /\ \A i \in 1..4 : call.bytes[i] \in 0..255
    /\ (call.n = 2 /\ call.fn = "from_be_bytes") => <<call.word>> = call.first
    /\ (call.n = 2 /\ call.fn = "to_be_bytes") => call.bytes = call.first

C34_Witness ==
  /\ call.fn = "from_be_bytes"
  /\ call.pc = "returned"
  /\ call.n = 2
  /\ call.first = <<W(65535, HalfOf(1))>>
  /\ call.bytes = <<255, 255, HalfOf(1) \div 256, HalfOf(1) % 256>>
  /\ call.word = W(65535, HalfOf(1))

====
